---- MODULE Spec2Model ----
(***************************************************************************)
(* Link resolution and indexing engine of typst-oxide-vscode.              *)
(*                                                                         *)
(* Strings are sequences of one-character strings, so that the path and    *)
(* scanner code (endsWith, split, trim, the regular expressions) is        *)
(* computed character by character as the TypeScript does.                 *)
(***************************************************************************)
EXTENDS Integers, Sequences, FiniteSets, TLC

(***************************************************************************)
(* Bounds of the model.                                                    *)
(***************************************************************************)
\* number of events (write, create, delete, rename, save) in a run
MaxFsEvents == 2
\* number of watcher/refresh updates that can be in flight at once
MaxUpdates == 2
\* number of I/O faults the environment may inject in a batch run
MaxFaults == 2
\* number of getFileLinks calls in a run
MaxQueries == 2

(***************************************************************************)
(* Values standing for JavaScript's undefined / null.                      *)
(***************************************************************************)
\* undefined for an optional string (no string of characters equals it)
Undef == <<"undefined">>
\* null / undefined for a record of the store (db.get of a missing key)
NoRec == [absent |-> TRUE]
\* a JavaScript truthiness test on an optional string
Truthy(str) == str # Undef /\ str # <<>>

(***************************************************************************)
(* String helpers (methods of String.prototype).                           *)
(***************************************************************************)
NL == "\n"
WhiteSpace == {" ", NL, "\t"}

Min(a, b) == IF a < b THEN a ELSE b

\* s.startsWith(pre) tested at 1-based position i
MatchAt(s, i, pre) ==
  /\ i >= 1
  /\ i + Len(pre) - 1 <= Len(s)
  /\ SubSeq(s, i, i + Len(pre) - 1) = pre

endsWith(s, suf) == MatchAt(s, Len(s) - Len(suf) + 1, suf)

\* s.indexOf(c, from): least 1-based position >= from holding c, else 0
IndexOfFrom(s, c, from) ==
  LET hits == {i \in from..Len(s) : s[i] = c}
  IN IF hits = {} THEN 0 ELSE CHOOSE i \in hits : \A j \in hits : i <= j

\* s.lastIndexOf(c) among the first n characters, else 0
LastIndexOfBefore(s, c, n) ==
  LET hits == {i \in 1..Min(n, Len(s)) : s[i] = c}
  IN IF hits = {} THEN 0 ELSE CHOOSE i \in hits : \A j \in hits : i >= j

\* s.split(c)
RECURSIVE split(_, _)
split(s, c) ==
  LET i == IndexOfFrom(s, c, 1)
  IN IF i = 0 THEN <<s>>
     ELSE <<SubSeq(s, 1, i - 1)>> \o split(SubSeq(s, i + 1, Len(s)), c)

\* s.trim()
RECURSIVE trimStart(_)
trimStart(s) ==
  IF s # <<>> /\ s[1] \in WhiteSpace THEN trimStart(Tail(s)) ELSE s

RECURSIVE trimEnd(_)
trimEnd(s) ==
  IF s # <<>> /\ s[Len(s)] \in WhiteSpace
  THEN trimEnd(SubSeq(s, 1, Len(s) - 1)) ELSE s

trim(s) == trimEnd(trimStart(s))

\* length of the longest run of characters satisfying "member of ok" at i
RECURSIVE RunIn(_, _, _)
RunIn(s, i, ok) ==
  IF i <= Len(s) /\ s[i] \in ok THEN 1 + RunIn(s, i + 1, ok) ELSE 0

RECURSIVE RunNotIn(_, _, _)
RunNotIn(s, i, bad) ==
  IF i <= Len(s) /\ s[i] \notin bad THEN 1 + RunNotIn(s, i + 1, bad) ELSE 0

\* content.substring(0, index).split("\n").length - 1
LineOf(s, index0) == Cardinality({i \in 1..index0 : s[i] = NL})

\* beforeMatch.lastIndexOf("\n") + 1, as a 0-based offset
LineStartOf(s, index0) == LastIndexOfBefore(s, NL, index0)

\* s.toLowerCase(), for the letters of the basic Latin alphabet
UpperCase == <<"A", "B", "C", "D", "E", "F", "G", "H", "I", "J", "K", "L", "M",
               "N", "O", "P", "Q", "R", "S", "T", "U", "V", "W", "X", "Y", "Z">>
LowerCase == <<"a", "b", "c", "d", "e", "f", "g", "h", "i", "j", "k", "l", "m",
               "n", "o", "p", "q", "r", "s", "t", "u", "v", "w", "x", "y", "z">>

LowerChar(c) ==
  LET k == IndexOfFrom(UpperCase, c, 1) IN IF k = 0 THEN c ELSE LowerCase[k]

toLowerCase(s) == [i \in 1..Len(s) |-> LowerChar(s[i])]

\* s.indexOf(sub): least 1-based position where sub starts, else 0
indexOf(s, sub) ==
  LET hits == {i \in 1..(Len(s) + 1) : MatchAt(s, i, sub)}
  IN IF hits = {} THEN 0 ELSE CHOOSE i \in hits : \A j \in hits : i <= j

includes(s, sub) == indexOf(s, sub) # 0

(***************************************************************************)
(* PathResolver (utils/pathResolver.ts).                                   *)
(***************************************************************************)
DotTyp == <<".", "t", "y", "p">>

ensureTypstExtension(filePath) ==
  IF ~endsWith(filePath, DotTyp) THEN filePath \o DotTyp ELSE filePath

\* path.isAbsolute (posix)
isAbsolute(p) == p # <<>> /\ p[1] = "/"

\* segment stack of path.resolve: "" and "." dropped, ".." pops
RECURSIVE NormSegs(_, _)
NormSegs(segs, acc) ==
  IF segs = <<>> THEN acc
  ELSE LET h == Head(segs)
       IN IF h = <<>> \/ h = <<".">> THEN NormSegs(Tail(segs), acc)
          ELSE IF h = <<".", ".">>
               THEN NormSegs(Tail(segs),
                             IF acc = <<>> THEN acc
                             ELSE SubSeq(acc, 1, Len(acc) - 1))
               ELSE NormSegs(Tail(segs), Append(acc, h))

RECURSIVE JoinSegs(_)
JoinSegs(segs) ==
  IF segs = <<>> THEN <<>> ELSE <<"/">> \o Head(segs) \o JoinSegs(Tail(segs))

\* path.dirname (posix) of an absolute file path
dirname(p) ==
  LET i == LastIndexOfBefore(p, "/", Len(p))
  IN IF i <= 1 THEN <<"/">> ELSE SubSeq(p, 1, i - 1)

\* path.resolve(dir, target) for an absolute dir
pathResolve(dir, target) ==
  LET all == IF isAbsolute(target) THEN target ELSE dir \o <<"/">> \o target
      segs == NormSegs(split(all, "/"), <<>>)
  IN IF segs = <<>> THEN <<"/">> ELSE JoinSegs(segs)

resolveFilePath(currentDocumentPath, targetPath) ==
  IF isAbsolute(targetPath) THEN targetPath
  ELSE pathResolve(dirname(currentDocumentPath), targetPath)

\* path.relative(from, to) (posix) for absolute paths: one ".." for each
\* segment of from below the common prefix, then the rest of to
RECURSIVE CommonPrefix(_, _)
CommonPrefix(a, b) ==
  IF a # <<>> /\ b # <<>> /\ Head(a) = Head(b)
  THEN 1 + CommonPrefix(Tail(a), Tail(b)) ELSE 0

RECURSIVE JoinRel(_)
JoinRel(segs) ==
  IF segs = <<>> THEN <<>>
  ELSE IF Len(segs) = 1 THEN segs[1]
  ELSE segs[1] \o <<"/">> \o JoinRel(Tail(segs))

relative(from, to) ==
  LET f == NormSegs(split(from, "/"), <<>>)
      t == NormSegs(split(to, "/"), <<>>)
      n == CommonPrefix(f, t)
  IN JoinRel([k \in 1..(Len(f) - n) |-> <<".", ".">>]
             \o SubSeq(t, n + 1, Len(t)))

\* the folder opened as the workspace
WorkspaceFolder == <<"/", "w">>

\* vscode.workspace.getWorkspaceFolder(uri): the folder holding the path
getWorkspaceFolder(p) ==
  IF MatchAt(p, 1, WorkspaceFolder \o <<"/">>) THEN WorkspaceFolder ELSE Undef

getWorkspaceRelativePath(p) ==
  LET workspaceFolder == getWorkspaceFolder(p)
  IN IF workspaceFolder # Undef THEN relative(workspaceFolder, p) ELSE p

\* the resolution getForwardLinks applies to a stored link
ResolveLink(sourcePath, targetFile) ==
  resolveFilePath(sourcePath, ensureTypstExtension(targetFile))

(***************************************************************************)
(* MetadataExtractor (indexing/metadataExtractor.ts): the scanners.        *)
(* Offsets named ...0 are JavaScript's 0-based offsets; sequence positions *)
(* are 1-based.                                                            *)
(***************************************************************************)
\* one match of /\[\[([^\]]+)\]\]/ starting at 1-based position i:
\* the length of the capture, or 0 when the regex does not match at i
WikiMatchLen(s, i) ==
  IF ~MatchAt(s, i, <<"[", "[">>) THEN 0
  ELSE LET n == RunNotIn(s, i + 2, {"]"})
       IN IF n >= 1 /\ MatchAt(s, i + 2 + n, <<"]", "]">>) THEN n ELSE 0

\* the body of the while loop of extractWikilinks for one match
ParseWikilink(s, i, n) ==
  LET linkContent == SubSeq(s, i + 2, i + 1 + n)
      parts == split(linkContent, ":")
      filePart == parts[1]
      labelPart == IF Len(parts) > 1 THEN parts[2] ELSE Undef
      hasLabel == Truthy(labelPart)
      labelParts == IF hasLabel THEN split(labelPart, "|") ELSE <<>>
      index0 == i - 1
      afterStart0 == index0 + n + 4
  IN [targetFile |-> trim(filePart),
      label |-> IF hasLabel THEN trim(labelParts[1]) ELSE Undef,
      alias |-> IF hasLabel /\ Len(labelParts) > 1
                THEN trim(labelParts[2]) ELSE Undef,
      range |-> [start |-> [line |-> LineOf(s, index0),
                            character |-> index0 - LineStartOf(s, index0)],
                 end |-> [line |-> LineOf(s, afterStart0),
                          character |->
                            afterStart0 - LineStartOf(s, afterStart0)]]]

\* regex.exec in a loop from position i (lastIndex)
RECURSIVE WikilinksFrom(_, _)
WikilinksFrom(s, i) ==
  IF i > Len(s) THEN <<>>
  ELSE LET n == WikiMatchLen(s, i)
       IN IF n = 0 THEN WikilinksFrom(s, i + 1)
          ELSE <<ParseWikilink(s, i, n)>> \o WikilinksFrom(s, i + n + 4)

extractWikilinks(content) == WikilinksFrom(content, 1)

\* /<([^<>\s]+)>/g
LabelMatchLen(s, i) ==
  IF ~MatchAt(s, i, <<"<">>) THEN 0
  ELSE LET n == RunNotIn(s, i + 1, {"<", ">"} \cup WhiteSpace)
       IN IF n >= 1 /\ MatchAt(s, i + 1 + n, <<">">>) THEN n ELSE 0

RECURSIVE ExplicitLabelsFrom(_, _)
ExplicitLabelsFrom(s, i) ==
  IF i > Len(s) THEN <<>>
  ELSE LET n == LabelMatchLen(s, i)
       IN IF n = 0 THEN ExplicitLabelsFrom(s, i + 1)
          ELSE <<[name |-> SubSeq(s, i + 1, i + n),
                  position |->
                    [line |-> LineOf(s, i - 1),
                     character |-> (i - 1) - LineStartOf(s, i - 1) + 1],
                  type |-> "label"]>>
               \o ExplicitLabelsFrom(s, i + n + 2)

\* where "\s{min,}(.+)$" (multiline) puts the start of its capture when the
\* white-space run starts at j0: the regex engine gives white space back
\* until a character that is not a line break follows; 0 when no match
CaptureStart(s, j0, min) ==
  LET w == RunIn(s, j0, WhiteSpace)
      ok == {k \in min..w : j0 + k <= Len(s) /\ s[j0 + k] # NL}
  IN IF ok = {} THEN 0
     ELSE j0 + (CHOOSE k \in ok : \A m \in ok : k >= m)

\* end (exclusive) of the line holding position j
LineEnd(s, j) ==
  LET e == IndexOfFrom(s, NL, j) IN IF e = 0 THEN Len(s) + 1 ELSE e

AtLineStart(s, i) == i = 1 \/ (i > 1 /\ i <= Len(s) + 1 /\ s[i - 1] = NL)

\* /^(=+)\s+(.+)$/gm at position i: <<level, capture start, end>> or <<>>
HeadingMatch(s, i) ==
  LET k == RunIn(s, i, {"="})
      c == IF k >= 1 THEN CaptureStart(s, i + k, 1) ELSE 0
  IN IF AtLineStart(s, i) /\ c # 0 THEN <<k, c, LineEnd(s, c)>> ELSE <<>>

RECURSIVE HeadingLabelsFrom(_, _)
HeadingLabelsFrom(s, i) ==
  IF i > Len(s) THEN <<>>
  ELSE LET m == HeadingMatch(s, i)
       IN IF m = <<>> THEN HeadingLabelsFrom(s, i + 1)
          ELSE <<[name |-> trim(SubSeq(s, m[2], m[3] - 1)),
                  position |-> [line |-> LineOf(s, i - 1),
                                character |-> m[1] + 1],
                  type |-> "heading"]>>
               \o HeadingLabelsFrom(s, m[3])

\* /^\s*\/\/\s*(.+)$/gm at position i: <<capture start, end>> or <<>>
CommentMatch(s, i) ==
  LET w == RunIn(s, i, WhiteSpace)
      c == IF MatchAt(s, i + w, <<"/", "/">>)
           THEN CaptureStart(s, i + w + 2, 0) ELSE 0
  IN IF AtLineStart(s, i) /\ c # 0 THEN <<c, LineEnd(s, c)>> ELSE <<>>

RECURSIVE CommentLabelsFrom(_, _)
CommentLabelsFrom(s, i) ==
  IF i > Len(s) THEN <<>>
  ELSE LET m == CommentMatch(s, i)
           lineStart0 == LineStartOf(s, i - 1)
       IN IF m = <<>> THEN CommentLabelsFrom(s, i + 1)
          ELSE <<[name |-> trim(SubSeq(s, m[1], m[2] - 1)),
                  position |->
                    [line |-> LineOf(s, i - 1),
                     \* substring(lineStart, index) is empty: indexOf = -1
                     character |-> (0 - 1) + lineStart0 + 2],
                  type |-> "comment"]>>
               \o CommentLabelsFrom(s, m[2])

extractLabels(content) ==
  ExplicitLabelsFrom(content, 1) \o HeadingLabelsFrom(content, 1)
    \o CommentLabelsFrom(content, 1)

\* line.match(/^(=+)\s+(.+)$/) on one line of content.split("\n")
HeadingOfLine(line, lineIndex) ==
  LET k == RunIn(line, 1, {"="})
      c == IF k >= 1 THEN CaptureStart(line, 1 + k, 1) ELSE 0
  IN IF c = 0 THEN <<>>
     ELSE <<[text |-> trim(SubSeq(line, c, Len(line))),
             level |-> k,
             position |-> [line |-> lineIndex, character |-> k + 1]]>>

RECURSIVE HeadingsOfLines(_, _)
HeadingsOfLines(lines, lineIndex) ==
  IF lines = <<>> THEN <<>>
  ELSE HeadingOfLine(Head(lines), lineIndex)
         \o HeadingsOfLines(Tail(lines), lineIndex + 1)

extractHeadings(content) == HeadingsOfLines(split(content, NL), 0)

(***************************************************************************)
(* WikiLinkProvider (wikiLinkProvider.ts).                                 *)
(***************************************************************************)
\* one match of WIKI_LINK_REGEX,
\*   /\[\[([^|\]]+?)(?::([^|\]]+?))?(?:\|([^\]]+))?\]\]/
\* starting at position i.  The first two groups exclude | and ], and what
\* follows them is | or ]], so together they take the whole run r of such
\* characters; the lazy first group stops before the first colon, past its
\* first character, that leaves a character for the second group.
\* The result holds the groups and the length of the match; <<>> when the
\* regex does not match at i.
WikiLinkMatch(s, i) ==
  IF ~MatchAt(s, i, <<"[", "[">>) THEN <<>>
  ELSE LET r == RunNotIn(s, i + 2, {"|", "]"})
           e == i + 2 + r
           colons == {k \in 2..(r - 1) : s[i + 1 + k] = ":"}
           c == IF colons = {} THEN 0
                ELSE CHOOSE k \in colons : \A m \in colons : k <= m
           a == IF MatchAt(s, e, <<"|">>) THEN RunNotIn(s, e + 1, {"]"}) ELSE 0
           tail == IF MatchAt(s, e, <<"|">>) THEN e + 1 + a ELSE e
       IN IF r >= 1 /\ (MatchAt(s, e, <<"|">>) => a >= 1)
             /\ MatchAt(s, tail, <<"]", "]">>)
          THEN <<[g1 |-> IF c = 0 THEN SubSeq(s, i + 2, e - 1)
                         ELSE SubSeq(s, i + 2, i + c),
                  g2 |-> IF c = 0 THEN Undef ELSE SubSeq(s, i + 2 + c, e - 1),
                  g3 |-> IF a = 0 THEN Undef ELSE SubSeq(s, e + 1, e + a),
                  length |-> tail + 2 - i]>>
          ELSE <<>>

\* document.positionAt(offset)
positionAt(s, offset0) ==
  [line |-> LineOf(s, offset0),
   character |-> offset0 - LineStartOf(s, offset0)]

\* the while loop of parseWikiLinks from position i (lastIndex)
RECURSIVE ParseWikiLinksFrom(_, _)
ParseWikiLinksFrom(s, i) ==
  IF i > Len(s) THEN <<>>
  ELSE LET m == WikiLinkMatch(s, i)
       IN IF m = <<>> THEN ParseWikiLinksFrom(s, i + 1)
          ELSE <<[filePath |-> trim(m[1].g1),
                  label |-> IF Truthy(m[1].g2) THEN trim(m[1].g2) ELSE <<>>,
                  alias |-> IF Truthy(m[1].g3) THEN trim(m[1].g3) ELSE <<>>,
                  range |-> [start |-> positionAt(s, i - 1),
                             end |-> positionAt(s, i - 1 + m[1].length)]]>>
               \o ParseWikiLinksFrom(s, i + m[1].length)

parseWikiLinks(text) == ParseWikiLinksFrom(text, 1)

(***************************************************************************)
(* LinkScanner (utils/linkScanner.ts) and LinkUpdater                      *)
(* (utils/linkUpdater.ts): links rewritten after a file is renamed.        *)
(***************************************************************************)
\* document.offsetAt(position)
offsetAt(s, pos) ==
  LET lineStart0 ==
        IF pos.line = 0 THEN 0
        ELSE CHOOSE i \in 1..Len(s) :
               s[i] = NL /\ Cardinality({j \in 1..i : s[j] = NL}) = pos.line
  IN lineStart0 + pos.character

\* the while loop of scanDocument from position i (lastIndex)
RECURSIVE ScanDocumentFrom(_, _)
ScanDocumentFrom(s, i) ==
  IF i > Len(s) THEN <<>>
  ELSE LET m == WikiLinkMatch(s, i)
       IN IF m = <<>> THEN ScanDocumentFrom(s, i + 1)
          ELSE <<[filePath |-> trim(m[1].g1),
                  label |-> IF Truthy(m[1].g2) THEN trim(m[1].g2) ELSE Undef,
                  alias |-> IF Truthy(m[1].g3) THEN trim(m[1].g3) ELSE Undef,
                  range |-> [start |-> positionAt(s, i - 1),
                             end |-> positionAt(s, i - 1 + m[1].length)],
                  fullMatch |-> SubSeq(s, i, i + m[1].length - 1)]>>
               \o ScanDocumentFrom(s, i + m[1].length)

scanDocument(text) == ScanDocumentFrom(text, 1)

\* p.replace(/\.typ$/, "")
WithoutTyp(p) ==
  IF endsWith(p, DotTyp) THEN SubSeq(p, 1, Len(p) - Len(DotTyp)) ELSE p

resolveLinkPath(sourcePath, linkPath) ==
  resolveFilePath(sourcePath, ensureTypstExtension(linkPath))

\* the links of one scanned file that findFilesLinkingTo keeps
relevantLinks(sourcePath, links, targetPath) ==
  LET targetPathWithoutExt == WithoutTyp(relative(WorkspaceFolder, targetPath))
  IN SelectSeq(links,
       LAMBDA link :
         WithoutTyp(relative(WorkspaceFolder,
                             resolveLinkPath(sourcePath, link.filePath)))
           = targetPathWithoutExt)

createRenameOperation(oldPath, newPath) ==
  [oldUri |-> oldPath,
   newUri |-> newPath,
   oldPath |-> IF getWorkspaceFolder(oldPath) # Undef
               THEN WithoutTyp(relative(WorkspaceFolder, oldPath))
               ELSE WithoutTyp(oldPath),
   newPath |-> IF getWorkspaceFolder(oldPath) # Undef
               THEN WithoutTyp(relative(WorkspaceFolder, newPath))
               ELSE WithoutTyp(newPath)]

\* filePath.replace(/\\/g, "/").replace(/^\//, "")
normalizePath(filePath) ==
  IF filePath # <<>> /\ filePath[1] = "/" THEN Tail(filePath) ELSE filePath

shouldUpdateLink(linkPath, oldTargetPath) ==
  LET normalizedLinkPath == normalizePath(linkPath)
      normalizedOldPath == normalizePath(oldTargetPath)
  IN \/ normalizedLinkPath = normalizedOldPath
     \/ normalizedLinkPath = normalizedOldPath \o DotTyp
     \/ normalizedLinkPath = WithoutTyp(normalizedOldPath)

calculateNewLinkPath(sourcePath, renameOperation) ==
  IF getWorkspaceFolder(sourcePath) = Undef THEN renameOperation.newPath
  ELSE WithoutTyp(relative(dirname(sourcePath), renameOperation.newUri))

buildLinkText(filePath, label, alias) ==
  <<"[", "[">> \o filePath
    \o (IF Truthy(label) THEN <<":">> \o label ELSE <<>>)
    \o (IF Truthy(alias) THEN <<"|">> \o alias ELSE <<>>)
    \o <<"]", "]">>

\* the loop of updateFileLinks over the links sorted from last to first:
\* links[k] down to links[1]
RECURSIVE ReplaceLinks(_, _, _, _, _, _)
ReplaceLinks(originalText, updatedText, links, k, newPath, oldPath) ==
  IF k = 0 THEN updatedText
  ELSE LET link == links[k]
           startOffset == offsetAt(originalText, link.range.start)
           endOffset == offsetAt(originalText, link.range.end)
       IN ReplaceLinks(originalText,
            IF shouldUpdateLink(link.filePath, oldPath)
            THEN SubSeq(updatedText, 1, startOffset)
                 \o buildLinkText(newPath, link.label, link.alias)
                 \o SubSeq(updatedText, endOffset + 1, Len(updatedText))
            ELSE updatedText,
            links, k - 1, newPath, oldPath)

\* the text of the file after updateFileLinks
updateFileLinks(sourcePath, originalText, links, renameOperation) ==
  ReplaceLinks(originalText, originalText, links, Len(links),
               calculateNewLinkPath(sourcePath, renameOperation),
               renameOperation.oldPath)

\* updateLinksForRename for one file of the workspace: the text it has
\* afterwards
updateLinksForRename(sourcePath, text, renameOperation) ==
  LET links == relevantLinks(sourcePath, scanDocument(text),
                             renameOperation.oldUri)
  IN IF links = <<>> THEN text
     ELSE updateFileLinks(sourcePath, text, links, renameOperation)

(***************************************************************************)
(* LabelSearcher (utils/labelSearcher.ts).  Lines are numbered from 0 and  *)
(* characters are 0-based offsets in the line, as in vscode.Position.      *)
(***************************************************************************)
NotFound == [found |-> FALSE]

Found(lineIndex, character, line) ==
  [found |-> TRUE,
   position |-> [line |-> lineIndex, character |-> character],
   line |-> line]

\* length of match[1] of /^(\s*X\s*)(.+)$/ where the run X ends before
\* position j and may give back a character when canShrink: the greedy
\* white space, then X, give one character back when nothing is left for
\* (.+); -1 when the regex does not match
PrefixLen(line, j, canShrink) ==
  LET w2 == RunIn(line, j, WhiteSpace)
      P == j - 1 + w2
  IN IF P < Len(line) THEN P
     ELSE IF w2 >= 1 \/ canShrink THEN P - 1
     ELSE 0 - 1

\* /^(\s*=+\s*)(.+)$/
findHeading(line, lineIndex, label) ==
  LET w == RunIn(line, 1, WhiteSpace)
      k == RunIn(line, 1 + w, {"="})
      m1 == IF k >= 1 THEN PrefixLen(line, 1 + w + k, k >= 2) ELSE 0 - 1
  IN IF m1 >= 0
        /\ toLowerCase(trim(SubSeq(line, m1 + 1, Len(line))))
             = toLowerCase(label)
     THEN Found(lineIndex, m1, line)
     ELSE NotFound

\* one match of /\/\*\s*([^*]+)\s*\*\// starting at position i: the
\* characters between the delimiters, or Undef when there is no match at i
BlockCommentAt(line, i) ==
  IF ~MatchAt(line, i, <<"/", "*">>) THEN Undef
  ELSE LET r == RunNotIn(line, i + 2, {"*"})
       IN IF r >= 1 /\ MatchAt(line, i + 2 + r, <<"*", "/">>)
          THEN SubSeq(line, i + 2, i + 1 + r) ELSE Undef

\* /^(\s*\/\/\s*)(.+)$/, then the first block comment of the line
findComment(line, lineIndex, label) ==
  LET w == RunIn(line, 1, WhiteSpace)
      m1 == IF MatchAt(line, 1 + w, <<"/", "/">>)
            THEN PrefixLen(line, 1 + w + 2, FALSE) ELSE 0 - 1
      starts == {i \in 1..Len(line) : BlockCommentAt(line, i) # Undef}
      first == CHOOSE i \in starts : \A j \in starts : i <= j
  IN IF m1 >= 0
        /\ toLowerCase(trim(SubSeq(line, m1 + 1, Len(line))))
             = toLowerCase(label)
     THEN Found(lineIndex, m1, line)
     ELSE IF starts # {}
             /\ toLowerCase(trim(BlockCommentAt(line, first)))
                  = toLowerCase(label)
          \* line.indexOf("/*") + 2
          THEN Found(lineIndex, (indexOf(line, <<"/", "*">>) - 1) + 2, line)
          ELSE NotFound

findTextMatch(line, lineIndex, label) ==
  LET index0 == indexOf(toLowerCase(line), toLowerCase(label)) - 1
  IN IF index0 # 0 - 1 THEN Found(lineIndex, index0, line) ELSE NotFound

\* searchStrategies[n](line, lineIndex)
Strategy(n, line, lineIndex, label) ==
  IF n = 1 THEN findHeading(line, lineIndex, label)
  ELSE IF n = 2 THEN findComment(line, lineIndex, label)
  ELSE findTextMatch(line, lineIndex, label)

\* the labelRegex loop: the first <...> whose content is the label
RECURSIVE ExplicitLabelFrom(_, _, _, _)
ExplicitLabelFrom(text, lines, label, i) ==
  IF i > Len(text) THEN NotFound
  ELSE LET n == LabelMatchLen(text, i)
       IN IF n = 0 THEN ExplicitLabelFrom(text, lines, label, i + 1)
          ELSE IF SubSeq(text, i + 1, i + n) = label
               THEN LET lineIndex == LineOf(text, i - 1)
                    IN Found(lineIndex,
                             (i - 1) - LineStartOf(text, i - 1) + 1,
                             lines[lineIndex + 1])
               ELSE ExplicitLabelFrom(text, lines, label, i + n + 2)

\* a search that would try every strategy on a line before the next line
findLabelLineFirst(text, label) ==
  LET lines == split(text, NL)
      explicit == ExplicitLabelFrom(text, lines, label, 1)
      hits == {<<i, n>> \in (1..Len(lines)) \X (1..3) :
                 Strategy(n, lines[i], i - 1, label).found}
      first == CHOOSE h \in hits :
                 \A g \in hits : h[1] < g[1] \/ (h[1] = g[1] /\ h[2] <= g[2])
  IN IF explicit.found THEN explicit
     ELSE IF hits = {} THEN NotFound
     ELSE Strategy(first[2], lines[first[1]], first[1] - 1, label)

\* for (const strategy of searchStrategies) for (let i = 0; ...)
findLabel(text, label) ==
  LET lines == split(text, NL)
      explicit == ExplicitLabelFrom(text, lines, label, 1)
      hits == {<<n, i>> \in (1..3) \X (1..Len(lines)) :
                 Strategy(n, lines[i], i - 1, label).found}
      first == CHOOSE h \in hits :
                 \A g \in hits : h[1] < g[1] \/ (h[1] = g[1] /\ h[2] <= g[2])
  IN IF explicit.found THEN explicit
     ELSE IF hits = {} THEN NotFound
     ELSE Strategy(first[1], lines[first[2]], first[2] - 1, label)

(***************************************************************************)
(* The workspace of the model: three documents in one folder, and the      *)
(* contents a document can have (text, and what "typst query" answers).    *)
(***************************************************************************)
A == <<"/", "w", "/", "a", ".", "t", "y", "p">>
B == <<"/", "w", "/", "b", ".", "t", "y", "p">>
D == <<"/", "w", "/", "d", ".", "t", "y", "p">>
Paths == {A, B, D}
\* LevelDB iterates its keys in byte order
PathOrder == <<A, B, D>>

\* [[b:intro]]
TxtLinkB == <<"[", "[", "b", ":", "i", "n", "t", "r", "o", "]", "]">>
\* [[d:intro]]
TxtLinkD == <<"[", "[", "d", ":", "i", "n", "t", "r", "o", "]", "]">>
\* [[/w/b.typ:intro]]
TxtAbsB == <<"[", "[">> \o B \o <<":", "i", "n", "t", "r", "o", "]", "]">>
\* = Intro
TxtHeading == <<"=", " ", "I", "n", "t", "r", "o">>
\* <intro>
TxtLabel == <<"<", "i", "n", "t", "r", "o", ">">>
\* [[b:nope]]
TxtNope == <<"[", "[", "b", ":", "n", "o", "p", "e", "]", "]">>
\* [[b]]
TxtPlain == <<"[", "[", "b", "]", "]">>

\* JSON values of the metadata object's alias entry
JsonUndefined == [kind |-> "undefined"]
JsonArray(items) == [kind |-> "array", items |-> items]
JsonString(str) == [kind |-> "string", value |-> str]
\* {} : what queryTypstMetadata resolves on any failure or empty output
EmptyMetadata == [alias |-> JsonUndefined]
MetaFoo == [alias |-> JsonArray(<< <<"f", "o", "o">>, <<"b", "a", "r">> >>)]

Contents ==
  << [text |-> TxtLinkB, meta |-> EmptyMetadata],
     [text |-> TxtLinkD, meta |-> MetaFoo],
     [text |-> TxtAbsB, meta |-> EmptyMetadata],
     [text |-> TxtHeading, meta |-> EmptyMetadata],
     [text |-> TxtLabel, meta |-> MetaFoo],
     [text |-> TxtNope, meta |-> EmptyMetadata],
     [text |-> TxtPlain, meta |-> EmptyMetadata] >>
ContentIds == 1..Len(Contents)
\* the contents a.typ can have when only queries are studied
LinkContents == {1, 3, 6, 7}
\* the contents the environment writes into each document
ContentsOf(p) == IF p = A THEN {1, 2, 3} ELSE {4, 5}

\* the three scans of extractMetadata, per content
Scanned ==
  [c \in ContentIds |->
     [labels |-> extractLabels(Contents[c].text),
      headings |-> extractHeadings(Contents[c].text),
      wikilinks |-> extractWikilinks(Contents[c].text)]]

(***************************************************************************)
(* DatabaseService (indexing/dbService.ts) over st, the LevelDB contents:  *)
(* a function from path to record or NoRec.                                *)
(***************************************************************************)
\* a put that would rewrite a stored record field by field and stop before the
\* labels; upsertFile must not behave like this
upsertFileFieldwise(st, fileData) ==
  [st EXCEPT ![fileData.filePath] =
     IF st[fileData.filePath] = [absent |-> TRUE] THEN fileData
     ELSE [fileData EXCEPT !.labels = st[fileData.filePath].labels]]

upsertFile(st, fileData) == [st EXCEPT ![fileData.filePath] = fileData]

getFile(st, filePath) == IF filePath \in DOMAIN st THEN st[filePath] ELSE NoRec

deleteFile(st, filePath) == [st EXCEPT ![filePath] = NoRec]

\* the records in iterator order
getAllFiles(st) ==
  LET present == SelectSeq(PathOrder, LAMBDA p : st[p] # NoRec)
  IN [i \in 1..Len(present) |-> st[present[i]]]

HasLinkTo(file, targetFile) ==
  \E i \in 1..Len(file.wikilinks) : file.wikilinks[i].targetFile = targetFile

getFilesWithWikilinksTo(st, targetFile) ==
  SelectSeq(getAllFiles(st), LAMBDA f : HasLinkTo(f, targetFile))

getLabelsInFile(st, filePath) ==
  LET file == getFile(st, filePath) IN IF file # NoRec THEN file.labels ELSE <<>>

\* a search that would report a file once for each alias that matches
searchFilesByAliasPerAlias(st, query) ==
  LET lowerQuery == toLowerCase(query)
      files == getAllFiles(st)
      Hits(f) == SelectSeq(f.aliases,
                   LAMBDA alias : includes(toLowerCase(alias), lowerQuery))
      Rec[k \in 0..Len(files)] ==
        IF k = 0 THEN <<>>
        ELSE Rec[k - 1] \o [j \in 1..Len(Hits(files[k])) |-> files[k]]
  IN Rec[Len(files)]

\* file.aliases.some(alias => alias.toLowerCase().includes(lowerQuery))
searchFilesByAlias(st, query) ==
  LET lowerQuery == toLowerCase(query)
  IN SelectSeq(getAllFiles(st),
       LAMBDA file :
         \E k \in 1..Len(file.aliases) :
           includes(toLowerCase(file.aliases[k]), lowerQuery))

\* getFile resolves null for a missing key, so the try block always returns true
isFileIndexed(st, filePath) ==
  LET file == getFile(st, filePath) IN TRUE

\* number | null; null is modelled as 0 (both are falsy at the only caller)
getLastModified(st, filePath) ==
  LET file == getFile(st, filePath)
  IN IF file # NoRec THEN file.lastModified ELSE 0

(***************************************************************************)
(* IndexingService.updateFileInDatabase: the record handed to upsertFile.  *)
(***************************************************************************)
aliasesOf(metadata) ==
  IF metadata.alias.kind = "array" THEN metadata.alias.items ELSE <<>>

\* mtime, metadata and the scan of the text are what extractMetadata returned
FileData(filePath, mtime, metadata, scan) ==
  [filePath |-> filePath,
   lastModified |-> mtime,
   metadata |-> metadata,
   aliases |-> aliasesOf(metadata),
   wikilinks |-> [i \in 1..Len(scan.wikilinks) |->
                    LET l == scan.wikilinks[i]
                    IN [sourceFile |-> filePath,
                        targetFile |-> l.targetFile,
                        label |-> l.label,
                        alias |-> l.alias,
                        range |-> l.range]],
   labels |-> [i \in 1..Len(scan.labels) |->
                 LET l == scan.labels[i]
                 IN [name |-> l.name, filePath |-> filePath,
                     position |-> l.position, type |-> l.type]],
   headings |-> [i \in 1..Len(scan.headings) |->
                   LET h == scan.headings[i]
                   IN [text |-> h.text, level |-> h.level,
                       filePath |-> filePath,
                       position |-> h.position]]]

\* the record of a document read in one piece: mtime, metadata, text of f
RecordOf(filePath, f) ==
  FileData(filePath, f.mtime, Contents[f.content].meta, Scanned[f.content])

(***************************************************************************)
(* State.                                                                  *)
(***************************************************************************)
VARIABLES
  fs,          \* the files: [exists, mtime, content] per path
  clock,       \* the file system's clock, in mtime units
  delPending,  \* paths whose delete notification is not yet delivered
  faults,      \* I/O faults the environment may still inject
  store,       \* DatabaseService.db: path -> record or NoRec
  linkCache,   \* LinkDiscovery.linkCache: path -> FileLinks or NoEntry
  tasks,       \* the asynchronous calls in flight, one per slot
  asked,       \* number of getFileLinks calls made so far
  escaped,     \* an exception has left a notification handler
  call         \* a call of a function without side effects, and its result

vars == <<fs, clock, delPending, faults, store, linkCache, tasks, asked,
         escaped, call>>

NoEntry == [absent |-> TRUE]

\* no function call is being followed
NoCall == [fn |-> "none"]

\* slot 0 runs getFileLinks, the last slot runs indexWorkspace, the others
\* run the updateFileInDatabase calls of the watcher and of refreshFile
QuerySlot == 0
UpdateSlots == 1..MaxUpdates
BatchSlot == MaxUpdates + 1
Slots == 0..(MaxUpdates + 1)

Idle ==
  [kind |-> "none", pc |-> "idle", path |-> <<>>, mt |-> 0,
   md |-> EmptyMetadata, links |-> <<>>, fwd |-> <<>>, pend |-> <<>>,
   bwd |-> <<>>, res |-> NoEntry, hit |-> FALSE, gone |-> {},
   refreshed |-> NoEntry, todo |-> <<>>, found |-> {}, ok |-> {}]

\* a block without catch: what is thrown inside leaves it
Uncaught(outcome) == outcome

\* try { ... } catch (error) { console.error(...) }: what leaves the block
Caught(outcome) == IF outcome = "throw" THEN "logged" ELSE outcome

\* an I/O operation either works or, while the environment has faults left
\* to inject, throws
FaultChoices == IF faults > 0 THEN BOOLEAN ELSE {FALSE}

\* the handler's record of an operation that threw or not
Escapes(fault) == escaped \/ Caught(IF fault THEN "throw" ELSE "ok") = "throw"

\* paths whose file is gone and whose delete notification has been handled
GoneNow == {p \in Paths : ~fs[p].exists /\ p \notin delPending}

FreeSlots == {i \in UpdateSlots : tasks[i].pc = "idle"}
FirstFree == CHOOSE i \in FreeSlots : \A j \in FreeSlots : i <= j

\* a call of updateFileInDatabase(path) entered in a free slot
StartUpdate(tk, path) ==
  [tk EXCEPT ![FirstFree] =
     [Idle EXCEPT !.kind = "update", !.pc = "stat", !.path = path]]

IndexedFs(f) == [p \in Paths |-> IF f[p].exists THEN RecordOf(p, f[p]) ELSE NoRec]

\* the workspace after activation: a.typ links to b.typ, d.typ does not
\* exist, initialize() has indexed every document, nothing is in flight
Init ==
  /\ fs = [p \in Paths |->
             IF p = A THEN [exists |-> TRUE, mtime |-> 1, content |-> 1]
             ELSE IF p = B THEN [exists |-> TRUE, mtime |-> 1, content |-> 4]
             ELSE [exists |-> FALSE, mtime |-> 0, content |-> 4]]
  /\ clock = 1
  /\ delPending = {}
  /\ faults = 0
  /\ store = IndexedFs(fs)
  /\ linkCache = [p \in Paths |-> NoEntry]
  /\ tasks = [i \in Slots |-> Idle]
  /\ asked = 0
  /\ escaped = FALSE
  /\ call = NoCall

(***************************************************************************)
(* The environment: the file system and the editor.                        *)
(***************************************************************************)
CanAct == clock < 1 + MaxFsEvents

\* a document is saved with new content; the watcher fires onDidChange,
\* whose handler (indexingService.ts 41-43) calls updateFileInDatabase
FsWrite(p, c) ==
  /\ CanAct /\ fs[p].exists /\ FreeSlots # {}
  /\ fs' = [fs EXCEPT ![p] = [exists |-> TRUE, mtime |-> clock + 1,
                              content |-> c]]
  /\ clock' = clock + 1
  /\ tasks' = StartUpdate(tasks, p)
  /\ UNCHANGED <<call, escaped, asked, delPending, faults, store, linkCache>>

\* a document is created; onDidCreate calls updateFileInDatabase
FsCreate(p, c) ==
  /\ CanAct /\ ~fs[p].exists /\ p \notin delPending /\ FreeSlots # {}
  /\ fs' = [fs EXCEPT ![p] = [exists |-> TRUE, mtime |-> clock + 1,
                              content |-> c]]
  /\ clock' = clock + 1
  /\ tasks' = StartUpdate(tasks, p)
  /\ UNCHANGED <<call, escaped, asked, delPending, faults, store, linkCache>>

\* a document is deleted; its onDidDelete notification is now pending
FsDelete(p) ==
  /\ CanAct /\ fs[p].exists
  /\ fs' = [fs EXCEPT ![p].exists = FALSE]
  /\ clock' = clock + 1
  /\ delPending' = delPending \cup {p}
  /\ UNCHANGED <<call, escaped, asked, faults, store, linkCache, tasks>>

\* a document is renamed (content and mtime move with it): the watcher
\* reports a delete of the old path and a create of the new one
FsRename(p, q) ==
  /\ CanAct /\ fs[p].exists /\ ~fs[q].exists /\ q \notin delPending
  /\ FreeSlots # {}
  /\ fs' = [fs EXCEPT ![p].exists = FALSE,
                      ![q] = [exists |-> TRUE, mtime |-> fs[p].mtime,
                              content |-> fs[p].content]]
  /\ clock' = clock + 1
  /\ delPending' = delPending \cup {p}
  /\ tasks' = StartUpdate(tasks, q)
  /\ UNCHANGED <<call, escaped, asked, faults, store, linkCache>>

(***************************************************************************)
(* IndexingService.setupFileWatcher: onDidDelete.                          *)
(***************************************************************************)
OnDidDelete(p) ==
  /\ p \in delPending
  /\ delPending' = delPending \ {p}
  /\ \E fault \in FaultChoices :
       /\ faults' = IF fault THEN faults - 1 ELSE faults
       /\ store' = IF fault THEN store ELSE deleteFile(store, p)
       /\ escaped' = Escapes(fault)
  /\ UNCHANGED <<call, asked, fs, clock, linkCache, tasks>>

(***************************************************************************)
(* LinkDiscovery.refreshFile (the sidebar calls it when a document is      *)
(* saved): invalidateFile, then IndexingService.refreshFile.  A save       *)
(* counts as an event of the run.                                          *)
(***************************************************************************)
invalidateFile(cache, filePath) == [cache EXCEPT ![filePath] = NoEntry]

invalidateCache(cache) == [p \in DOMAIN cache |-> NoEntry]

\* a getFileLinks(p) that is computing its result when refreshFile(p) is
\* called keeps a record of the file as it was at that call
Overlapped(tk, p) ==
  IF tk[QuerySlot].pc \notin {"idle", "ret"} /\ tk[QuerySlot].path = p
  THEN [tk EXCEPT ![QuerySlot].refreshed = fs[p]]
  ELSE tk

RefreshFile(p) ==
  /\ CanAct /\ fs[p].exists /\ FreeSlots # {}
  /\ clock' = clock + 1
  /\ linkCache' = invalidateFile(linkCache, p)
  /\ tasks' = Overlapped(StartUpdate(tasks, p), p)
  /\ UNCHANGED <<call, escaped, asked, fs, delPending, faults, store>>

(***************************************************************************)
(* updateFileInDatabase, one action per suspension point of                *)
(* extractMetadata.  The call runs in a slot of its own (watcher,          *)
(* refreshFile), inside getFileLinks (ensureFileIndexed) or inside         *)
(* indexWorkspace; where it returns to depends on the caller.              *)
(***************************************************************************)
\* an indexWorkspace whose loop would end at the first document that fails
AfterUpdateAborting(t, succeeded) ==
  IF t.kind = "query"
  THEN [t EXCEPT !.pc = "fwdGet", !.mt = 0, !.md = EmptyMetadata]
  ELSE IF t.kind = "batch"
  THEN LET rest == Tail(t.todo)
           ok == IF succeeded THEN t.ok \cup {t.path} ELSE t.ok
       IN IF rest = <<>> \/ ~succeeded
          THEN [t EXCEPT !.pc = "done", !.todo = rest, !.ok = ok,
                         !.path = <<>>, !.mt = 0, !.md = EmptyMetadata]
          ELSE [t EXCEPT !.pc = "stat", !.todo = rest, !.ok = ok,
                         !.path = Head(rest), !.mt = 0, !.md = EmptyMetadata]
  ELSE Idle

\* the caller's continuation once updateFileInDatabase has returned;
\* succeeded: extraction and upsert both went through
AfterUpdate(t, succeeded) ==
  IF t.kind = "query"
  THEN [t EXCEPT !.pc = "fwdGet", !.mt = 0, !.md = EmptyMetadata]
  ELSE IF t.kind = "batch"
  THEN LET rest == Tail(t.todo)
           ok == IF succeeded THEN t.ok \cup {t.path} ELSE t.ok
       IN IF rest = <<>>
          THEN [t EXCEPT !.pc = "done", !.todo = rest, !.ok = ok,
                         !.path = <<>>, !.mt = 0, !.md = EmptyMetadata]
          ELSE [t EXCEPT !.pc = "stat", !.todo = rest, !.ok = ok,
                         !.path = Head(rest), !.mt = 0, !.md = EmptyMetadata]
  ELSE Idle

\* a step of the query slot also narrows its record of the paths that were
\* gone at every step of the query so far
Step(i, t) ==
  IF i = QuerySlot THEN [t EXCEPT !.gone = t.gone \cap GoneNow] ELSE t

\* const stats = await fs.stat(filePath)
UpdStat(i) ==
  LET t == tasks[i] IN
  /\ t.pc = "stat"
  /\ \E fault \in FaultChoices :
       /\ faults' = IF fault THEN faults - 1 ELSE faults
       /\ tasks' = [tasks EXCEPT ![i] =
            Step(i, IF fs[t.path].exists /\ ~fault
                    THEN [t EXCEPT !.pc = "access", !.mt = fs[t.path].mtime]
                    ELSE AfterUpdate(t, FALSE))]
       /\ escaped' = Escapes(fault)
  /\ UNCHANGED <<call, asked, fs, clock, delPending, store, linkCache>>

\* if (!(await this.fileExists(filePath))) return null
UpdAccess(i) ==
  LET t == tasks[i] IN
  /\ t.pc = "access"
  /\ tasks' = [tasks EXCEPT ![i] =
       Step(i, IF fs[t.path].exists THEN [t EXCEPT !.pc = "query"]
               ELSE AfterUpdate(t, FALSE))]
  /\ UNCHANGED <<call, escaped, asked, fs, clock, delPending, faults, store, linkCache>>

\* what the typst query command gives back: JSON of the metadata, an exec
\* error, empty output, or output that JSON.parse rejects
QueryAnswers ==
  IF faults > 0 THEN {"json", "error", "empty", "garbage"} ELSE {"json"}

\* queryTypstMetadata resolves {} on an exec error, on output that is empty
\* after trim(), and when JSON.parse throws; it never rejects
queryTypstMetadata(f, answer) ==
  IF ~f.exists \/ answer = "error" THEN EmptyMetadata
  ELSE IF answer = "empty" THEN EmptyMetadata
  ELSE IF answer = "garbage" THEN EmptyMetadata
  ELSE Contents[f.content].meta

\* an extraction that would give up when the metadata query fails
UpdQueryAborting(i) ==
  LET t == tasks[i] IN
  /\ t.pc = "query"
  /\ \E answer \in QueryAnswers :
       /\ faults' = IF answer # "json" THEN faults - 1 ELSE faults
       /\ tasks' = [tasks EXCEPT ![i] =
            Step(i, IF answer # "json" THEN AfterUpdate(t, FALSE)
                    ELSE [t EXCEPT !.pc = "text",
                            !.md = queryTypstMetadata(fs[t.path], answer)])]
  /\ UNCHANGED <<call, escaped, asked, fs, clock, delPending, store, linkCache>>

UpdQuery(i) ==
  LET t == tasks[i] IN
  /\ t.pc = "query"
  /\ \E answer \in QueryAnswers :
       /\ faults' = IF answer # "json" THEN faults - 1 ELSE faults
       /\ tasks' = [tasks EXCEPT ![i] =
            Step(i, [t EXCEPT !.pc = "text",
                              !.md = queryTypstMetadata(fs[t.path], answer)])]
  /\ UNCHANGED <<call, escaped, asked, fs, clock, delPending, store, linkCache>>

\* openTextDocument + getText, the three scans, and db.put, which is issued
\* in the same turn of the event loop.  A deleted file can still be read
\* when the editor holds the document open.
UpdText(i) ==
  LET t == tasks[i]
      f == fs[t.path]
  IN
  /\ t.pc = "text"
  /\ \E fault \in FaultChoices, open \in BOOLEAN :
       LET readable == (f.exists \/ open) /\ ~fault
           fileData == FileData(t.path, t.mt, t.md, Scanned[f.content])
       IN /\ faults' = IF fault THEN faults - 1 ELSE faults
          /\ store' = IF readable THEN upsertFile(store, fileData) ELSE store
          /\ tasks' = [tasks EXCEPT ![i] = Step(i, AfterUpdate(t, readable))]
          /\ escaped' = Escapes(fault)
  /\ UNCHANGED <<call, asked, fs, clock, delPending, linkCache>>

(***************************************************************************)
(* LinkDiscovery.refreshAll and IndexingService.indexWorkspace.            *)
(***************************************************************************)
RefreshAll ==
  /\ tasks[BatchSlot].pc = "idle"
  /\ linkCache' = invalidateCache(linkCache)
  /\ tasks' = [tasks EXCEPT ![BatchSlot] =
                 [Idle EXCEPT !.kind = "batch", !.pc = "find"]]
  /\ UNCHANGED <<call, escaped, asked, fs, clock, delPending, faults, store>>

\* await vscode.workspace.findFiles("**/*.typ", ...)
BatchFind ==
  LET t == tasks[BatchSlot]
      files == SelectSeq(PathOrder, LAMBDA p : fs[p].exists)
  IN
  /\ t.pc = "find"
  /\ tasks' = [tasks EXCEPT ![BatchSlot] =
       IF files = <<>> THEN [t EXCEPT !.pc = "done"]
       ELSE [t EXCEPT !.pc = "stat", !.todo = files, !.path = Head(files),
                      !.found = {files[k] : k \in 1..Len(files)}]]
  /\ UNCHANGED <<call, escaped, asked, fs, clock, delPending, faults, store, linkCache>>

\* indexWorkspace returns
BatchReturn ==
  /\ tasks[BatchSlot].pc = "done"
  /\ tasks' = [tasks EXCEPT ![BatchSlot] = Idle]
  /\ UNCHANGED <<call, escaped, asked, fs, clock, delPending, faults, store, linkCache>>

(***************************************************************************)
(* LinkDiscovery.getFileLinks, one action per suspension point.            *)
(***************************************************************************)
\* boolean | undefined as a string, so that the three values compare
BoolStr(b) == IF b THEN "true" ELSE "false"

\* PathResolver.fileExists on a resolved path
fileExists(f, path) == path \in DOMAIN f /\ f[path].exists

\* targetLabels.some((label) => label.name === link.label)
LabelNamed(labels, name) == \E k \in 1..Len(labels) : labels[k].name = name

\* a change detection that would also re-extract at an equal mtime
NeedsUpdateOnEqual(lastIndexed, mtime) ==
  lastIndexed = 0 \/ mtime >= lastIndexed

\* ensureFileIndexed: re-extract when nothing is stored or the file is newer
NeedsUpdate(lastIndexed, mtime) == lastIndexed = 0 \/ mtime > lastIndexed

QT == tasks[QuerySlot]

SetQ(t) == tasks' = [tasks EXCEPT ![QuerySlot] = Step(QuerySlot, t)]

\* if (this.linkCache.has(filePath)) return this.linkCache.get(filePath)
GetFileLinks(p) ==
  /\ QT.pc = "idle" /\ asked < MaxQueries
  /\ asked' = asked + 1
  /\ tasks' = [tasks EXCEPT ![QuerySlot] =
       IF linkCache[p] # NoEntry
       THEN [Idle EXCEPT !.kind = "query", !.pc = "ret", !.path = p,
                         !.res = linkCache[p], !.hit = TRUE, !.gone = GoneNow]
       ELSE [Idle EXCEPT !.kind = "query", !.pc = "isIndexed", !.path = p,
                         !.gone = GoneNow]]
  /\ UNCHANGED <<call, escaped, fs, clock, delPending, faults, store, linkCache>>

\* const isIndexed = await this.dbService.isFileIndexed(filePath)
EnsureIsIndexed ==
  /\ QT.pc = "isIndexed"
  /\ SetQ([QT EXCEPT !.pc = IF ~isFileIndexed(store, QT.path) THEN "stat"
                            ELSE "ensStat"])
  /\ UNCHANGED <<call, escaped, asked, fs, clock, delPending, faults, store, linkCache>>

\* const stats = await vscode.workspace.fs.stat(fileUri); a throw ends
\* ensureFileIndexed in its catch
EnsureStat ==
  /\ QT.pc = "ensStat"
  /\ SetQ(IF fs[QT.path].exists
          THEN [QT EXCEPT !.pc = "ensLast", !.mt = fs[QT.path].mtime]
          ELSE [QT EXCEPT !.pc = "fwdGet"])
  /\ UNCHANGED <<call, escaped, asked, fs, clock, delPending, faults, store, linkCache>>

\* const lastIndexed = await this.dbService.getLastModified(filePath)
EnsureLastModified ==
  /\ QT.pc = "ensLast"
  /\ SetQ(IF NeedsUpdate(getLastModified(store, QT.path), QT.mt)
          THEN [QT EXCEPT !.pc = "stat", !.mt = 0]
          ELSE [QT EXCEPT !.pc = "fwdGet"])
  /\ UNCHANGED <<call, escaped, asked, fs, clock, delPending, faults, store, linkCache>>

\* getForwardLinks: const fileData = await this.dbService.getFile(...)
ForwardGetFile ==
  LET fileData == getFile(store, QT.path) IN
  /\ QT.pc = "fwdGet"
  /\ SetQ(IF fileData = NoRec \/ fileData.wikilinks = <<>>
          THEN [QT EXCEPT !.pc = "bwdScan", !.mt = 0, !.md = EmptyMetadata]
          ELSE [QT EXCEPT !.pc = "fwdExists", !.mt = 0, !.md = EmptyMetadata,
                          !.links = fileData.wikilinks])
  /\ UNCHANGED <<call, escaped, asked, fs, clock, delPending, faults, store, linkCache>>

\* a report that would give labelExists a value for a missing target
ForwardInfoDefined(source, link, labelExists) ==
  [sourceFile |-> source,
   targetFile |-> ResolveLink(source, link.targetFile),
   label |-> link.label,
   range |-> link.range,
   exists |-> labelExists # "missing",
   labelExists |-> IF labelExists = "missing" THEN "false" ELSE labelExists]

ForwardInfo(source, link, labelExists) ==
  [sourceFile |-> source,
   targetFile |-> ResolveLink(source, link.targetFile),
   label |-> link.label,
   range |-> link.range,
   exists |-> labelExists # "missing",
   labelExists |-> IF labelExists = "missing" THEN "undefined"
                   ELSE labelExists]

\* the forward loop moves to its next link, or getForwardLinks returns
ForwardPush(t, info) ==
  [t EXCEPT !.fwd = Append(t.fwd, info), !.links = Tail(t.links),
            !.pc = IF Tail(t.links) = <<>> THEN "bwdScan" ELSE "fwdExists"]

\* const targetExists = await PathResolver.fileExists(targetUri)
ForwardExists ==
  LET link == Head(QT.links)
      targetExists == fileExists(fs, ResolveLink(QT.path, link.targetFile))
  IN
  /\ QT.pc = "fwdExists"
  /\ SetQ(IF targetExists /\ Truthy(link.label)
          THEN [QT EXCEPT !.pc = "fwdLabels"]
          ELSE ForwardPush(QT, ForwardInfo(QT.path, link,
                 IF targetExists THEN "undefined" ELSE "missing")))
  /\ UNCHANGED <<call, escaped, asked, fs, clock, delPending, faults, store, linkCache>>

\* const targetLabels = await this.dbService.getLabelsInFile(target)
ForwardLabels ==
  LET link == Head(QT.links)
      targetLabels ==
        getLabelsInFile(store, ResolveLink(QT.path, link.targetFile))
  IN
  /\ QT.pc = "fwdLabels"
  /\ SetQ(ForwardPush(QT, ForwardInfo(QT.path, link,
            BoolStr(LabelNamed(targetLabels, link.label)))))
  /\ UNCHANGED <<call, escaped, asked, fs, clock, delPending, faults, store, linkCache>>

RECURSIVE Flatten(_)
Flatten(files) ==
  IF files = <<>> THEN <<>>
  ELSE Head(files).wikilinks \o Flatten(Tail(files))

\* the links the two loops of getBackwardLinks visit, in order
BackwardMatches(st, path) ==
  SelectSeq(Flatten(getFilesWithWikilinksTo(st, path)),
            LAMBDA l : l.targetFile = path)

BackwardInfo(path, link, labelExists) ==
  [sourceFile |-> link.sourceFile, targetFile |-> path, label |-> link.label,
   range |-> link.range, exists |-> TRUE, labelExists |-> labelExists]

\* links without a label are pushed without suspending
RECURSIVE Drain(_, _, _)
Drain(path, pend, bwd) ==
  IF pend = <<>> \/ Truthy(Head(pend).label) THEN [pend |-> pend, bwd |-> bwd]
  ELSE Drain(path, Tail(pend),
             Append(bwd, BackwardInfo(path, Head(pend), "undefined")))

\* the backward loop suspends at the next labelled link, or getFileLinks
\* stores its result in the cache and returns it
BackwardAdvance(t, d) ==
  IF d.pend # <<>>
  THEN /\ SetQ([t EXCEPT !.pc = "bwdLabels", !.pend = d.pend, !.bwd = d.bwd])
       /\ UNCHANGED linkCache
  ELSE LET fileLinks == [filePath |-> t.path, forwardLinks |-> t.fwd,
                         backwardLinks |-> d.bwd]
       IN /\ linkCache' = [linkCache EXCEPT ![t.path] = fileLinks]
          /\ SetQ([t EXCEPT !.pc = "ret", !.res = fileLinks, !.fwd = <<>>,
                            !.pend = <<>>, !.bwd = <<>>])

\* const linkingFiles = await this.dbService.getFilesWithWikilinksTo(...)
BackwardScan ==
  /\ QT.pc = "bwdScan"
  /\ BackwardAdvance(QT, Drain(QT.path, BackwardMatches(store, QT.path), <<>>))
  /\ UNCHANGED <<call, escaped, asked, fs, clock, delPending, faults, store>>

\* const targetLabels = await this.dbService.getLabelsInFile(fileUri.fsPath)
BackwardLabels ==
  LET link == Head(QT.pend)
      targetLabels == getLabelsInFile(store, QT.path)
      info == BackwardInfo(QT.path, link,
                BoolStr(LabelNamed(targetLabels, link.label)))
  IN
  /\ QT.pc = "bwdLabels"
  /\ BackwardAdvance(QT, Drain(QT.path, Tail(QT.pend), Append(QT.bwd, info)))
  /\ UNCHANGED <<call, escaped, asked, fs, clock, delPending, faults, store>>

\* the caller has the FileLinks
QueryReturn ==
  /\ QT.pc = "ret"
  /\ tasks' = [tasks EXCEPT ![QuerySlot] = Idle]
  /\ UNCHANGED <<call, escaped, asked, fs, clock, delPending, faults, store, linkCache>>

(***************************************************************************)
(* Specifications.                                                         *)
(***************************************************************************)
Next ==
  \/ \E p \in Paths : \E c \in ContentsOf(p) : FsWrite(p, c)
  \/ \E p \in Paths : \E c \in ContentsOf(p) : FsCreate(p, c)
  \/ \E p \in Paths : FsDelete(p)
  \/ FsRename(B, D)
  \/ \E p \in Paths : OnDidDelete(p)
  \/ \E p \in Paths : RefreshFile(p)
  \/ \E i \in Slots : UpdStat(i)
  \/ \E i \in Slots : UpdAccess(i)
  \/ \E i \in Slots : UpdQuery(i)
  \/ \E i \in Slots : UpdText(i)
  \/ \E p \in Paths : GetFileLinks(p)
  \/ EnsureIsIndexed
  \/ EnsureStat
  \/ EnsureLastModified
  \/ ForwardGetFile
  \/ ForwardExists
  \/ ForwardLabels
  \/ BackwardScan
  \/ BackwardLabels
  \/ QueryReturn

Spec == Init /\ [][Next]_vars

\* the workspace after an activation on a persisted store: d.typ was deleted
\* while the extension was not running, and indexWorkspace, which only
\* upserts the documents findFiles reports, has left its record in place
InitLeftover ==
  /\ fs = [p \in Paths |->
             IF p = A THEN [exists |-> TRUE, mtime |-> 1, content |-> 1]
             ELSE IF p = B THEN [exists |-> TRUE, mtime |-> 1, content |-> 4]
             ELSE [exists |-> FALSE, mtime |-> 0, content |-> 4]]
  /\ clock = 1
  /\ delPending = {}
  /\ faults = 0
  /\ \E c \in ContentsOf(D) :
       store = [IndexedFs(fs) EXCEPT
                  ![D] = RecordOf(D, [exists |-> TRUE, mtime |-> 1,
                                      content |-> c])]
  /\ linkCache = [p \in Paths |-> NoEntry]
  /\ tasks = [i \in Slots |-> Idle]
  /\ asked = 0
  /\ escaped = FALSE
  /\ call = NoCall

SpecLeftover == InitLeftover /\ [][Next]_vars

\* activation of a workspace whose store is still empty: any subset of the
\* documents exists, and I/O may fail while indexWorkspace runs
InitBatch ==
  /\ fs \in [Paths -> [exists : BOOLEAN, mtime : {1}, content : ContentIds]]
  /\ \A p \in Paths : fs[p].content \in ContentsOf(p)
  /\ clock = 1
  /\ delPending = {}
  /\ faults = MaxFaults
  /\ store = [p \in Paths |-> NoRec]
  /\ linkCache = [p \in Paths |-> NoEntry]
  /\ tasks = [i \in Slots |-> Idle]
  /\ asked = 0
  /\ escaped = FALSE
  /\ call = NoCall

NextBatch ==
  \/ RefreshAll
  \/ BatchFind
  \/ UpdStat(BatchSlot)
  \/ UpdAccess(BatchSlot)
  \/ UpdQuery(BatchSlot)
  \/ UpdText(BatchSlot)
  \/ BatchReturn

SpecBatch == InitBatch /\ [][NextBatch]_vars

\* activation on a store persisted by an earlier session: each document
\* may have a record from then, whether or not it still exists, and
\* initialize() is about to run indexWorkspace; no file event occurs
InitStartup ==
  /\ fs \in [Paths -> [exists : BOOLEAN, mtime : {1}, content : ContentIds]]
  /\ \A p \in Paths : fs[p].content \in ContentsOf(p)
  /\ clock = 1
  /\ delPending = {}
  /\ faults = 0
  /\ store \in [Paths -> {NoRec} \cup
                  {RecordOf(p, [exists |-> TRUE, mtime |-> 1, content |-> c]) :
                     p \in Paths, c \in ContentIds}]
  /\ \A p \in Paths :
       store[p] = NoRec \/
       \E c \in ContentsOf(p) :
         store[p] = RecordOf(p, [exists |-> TRUE, mtime |-> 1, content |-> c])
  /\ linkCache = [p \in Paths |-> NoEntry]
  /\ tasks = [i \in Slots |->
               IF i = BatchSlot THEN [Idle EXCEPT !.kind = "batch", !.pc = "find"]
               ELSE Idle]
  /\ asked = 0
  /\ escaped = FALSE
  /\ call = NoCall

NextStartup ==
  \/ BatchFind
  \/ UpdStat(BatchSlot)
  \/ UpdAccess(BatchSlot)
  \/ UpdQuery(BatchSlot)
  \/ UpdText(BatchSlot)
  \/ BatchReturn

SpecStartup == InitStartup /\ [][NextStartup]_vars

\* the watcher and the refresh command at work while storage and file
\* operations may fail; nothing queries
InitWatch ==
  /\ fs = [p \in Paths |->
             IF p = A THEN [exists |-> TRUE, mtime |-> 1, content |-> 1]
             ELSE IF p = B THEN [exists |-> TRUE, mtime |-> 1, content |-> 4]
             ELSE [exists |-> FALSE, mtime |-> 0, content |-> 4]]
  /\ clock = 1
  /\ delPending = {}
  /\ faults = MaxFaults
  /\ store = IndexedFs(fs)
  /\ linkCache = [p \in Paths |-> NoEntry]
  /\ tasks = [i \in Slots |-> Idle]
  /\ asked = 0
  /\ escaped = FALSE
  /\ call = NoCall

NextWatch ==
  \/ \E p \in Paths : \E c \in ContentsOf(p) : FsWrite(p, c)
  \/ \E p \in Paths : \E c \in ContentsOf(p) : FsCreate(p, c)
  \/ \E p \in Paths : FsDelete(p)
  \/ FsRename(B, D)
  \/ \E p \in Paths : OnDidDelete(p)
  \/ \E p \in Paths : RefreshFile(p)
  \/ \E i \in UpdateSlots : UpdStat(i)
  \/ \E i \in UpdateSlots : UpdAccess(i)
  \/ \E i \in UpdateSlots : UpdQuery(i)
  \/ \E i \in UpdateSlots : UpdText(i)

SpecWatch == InitWatch /\ [][NextWatch]_vars

\* getFileLinks at work on a workspace in which b.typ may be missing or not
\* yet indexed, and may be deleted meanwhile; nothing is written to disk
InitLinks ==
  /\ \E ca \in LinkContents, cb \in ContentsOf(B), eb \in BOOLEAN :
       fs = [p \in Paths |->
               IF p = A THEN [exists |-> TRUE, mtime |-> 1, content |-> ca]
               ELSE IF p = B THEN [exists |-> eb, mtime |-> 1, content |-> cb]
               ELSE [exists |-> FALSE, mtime |-> 0, content |-> 4]]
  /\ \E ib \in BOOLEAN :
       store = [p \in Paths |->
                  IF p = A \/ (p = B /\ ib) THEN RecordOf(p, fs[p]) ELSE NoRec]
  /\ clock = 1
  /\ delPending = {}
  /\ faults = 0
  /\ linkCache = [p \in Paths |-> NoEntry]
  /\ tasks = [i \in Slots |-> Idle]
  /\ asked = 0
  /\ escaped = FALSE
  /\ call = NoCall

NextLinks ==
  \/ \E p \in Paths : FsDelete(p)
  \/ \E p \in Paths : OnDidDelete(p)
  \/ \E p \in Paths : GetFileLinks(p)
  \/ EnsureIsIndexed
  \/ EnsureStat
  \/ EnsureLastModified
  \/ UpdStat(QuerySlot)
  \/ UpdAccess(QuerySlot)
  \/ UpdQuery(QuerySlot)
  \/ UpdText(QuerySlot)
  \/ ForwardGetFile
  \/ ForwardExists
  \/ ForwardLabels
  \/ BackwardScan
  \/ BackwardLabels
  \/ QueryReturn

SpecLinks == InitLinks /\ [][NextLinks]_vars

(***************************************************************************)
(* FindReferencesProvider (findReferencesProvider.ts) and                  *)
(* WikiLinkProvider.provideDocumentLinks: the queries that take a          *)
(* cancellation token.  call holds the running query.                      *)
(***************************************************************************)
\* the heading loop of findReferencesInFile: /^\s*=+\s*(.+)$/ on each line
HeadingInText(text, targetName) ==
  LET lines == split(text, NL)
  IN \E k \in 1..Len(lines) : findHeading(lines[k], k - 1, targetName).found

\* findReferencesInFile for the document at path, in file system state f
findReferencesInFile(f, path, targetName, targetType) ==
  LET wikiLinks == parseWikiLinks(Contents[f[path].content].text)
      Refers(wikiLink) ==
        /\ wikiLink.label # <<>>
        /\ trim(toLowerCase(wikiLink.label)) = trim(toLowerCase(targetName))
        /\ LET target == resolveFilePath(path,
                            ensureTypstExtension(wikiLink.filePath))
           IN \* openTextDocument throws for a missing file
              /\ target \in Paths /\ f[target].exists
              /\ IF targetType = "label"
                 THEN findLabel(Contents[f[target].content].text,
                                targetName).found
                 ELSE HeadingInText(Contents[f[target].content].text,
                                    targetName)
      kept == SelectSeq(wikiLinks, Refers)
  IN [k \in 1..Len(kept) |-> [uri |-> path, range |-> kept[k].range]]

\* vscode.workspace.findFiles
typstFiles(f) == SelectSeq(PathOrder, LAMBDA p : f[p].exists)

ReferenceTargets ==
  {[name |-> <<"i", "n", "t", "r", "o">>, type |-> "label"],
   [name |-> <<"i", "n", "t", "r", "o">>, type |-> "heading"],
   [name |-> <<"I", "n", "t", "r", "o">>, type |-> "label"],
   [name |-> <<"I", "n", "t", "r", "o">>, type |-> "heading"]}

\* findAllReferences entered: no file visited, token not cancelled
ReferenceCalls(f) ==
  {[fn |-> "findAllReferences", targetName |-> t.name, targetType |-> t.type,
    files |-> typstFiles(f), i |-> 1, references |-> <<>>,
    cancelled |-> FALSE, broke |-> FALSE, pc |-> "loop", out |-> <<>>] :
     t \in ReferenceTargets}

\* one turn of the for loop of findAllReferences, up to the await of the
\* next turn or the return
FindAllReferencesStep ==
  /\ call.fn = "findAllReferences" /\ call.pc = "loop"
  /\ call' = IF call.i > Len(call.files)
             THEN [call EXCEPT !.pc = "returned", !.out = call.references]
             ELSE IF call.cancelled
             \* break, then return references
             THEN [call EXCEPT !.pc = "returned", !.broke = TRUE,
                               !.out = call.references]
             ELSE [call EXCEPT
                    !.i = call.i + 1,
                    !.references = call.references \o
                       findReferencesInFile(fs, call.files[call.i],
                         call.targetName, call.targetType)]
  /\ UNCHANGED <<fs, clock, delPending, faults, store, linkCache, tasks,
                 asked, escaped>>

\* the host cancels the token of the running query
CancelRequested ==
  /\ call.fn = "findAllReferences" /\ call.pc = "loop" /\ ~call.cancelled
  /\ call' = [call EXCEPT !.cancelled = TRUE]
  /\ UNCHANGED <<fs, clock, delPending, faults, store, linkCache, tasks,
                 asked, escaped>>

\* provideDocumentLinks runs without suspending, so the token has one value
\* for the whole loop: the loop breaks at its first match or never
provideDocumentLinks(text, isCancellationRequested) ==
  LET found == parseWikiLinks(text)
  IN IF isCancellationRequested THEN <<>>
     ELSE [k \in 1..Len(found) |-> [range |-> found[k].range]]

DocumentLinkCalls ==
  {[fn |-> "provideDocumentLinks", text |-> Contents[c].text,
    cancelled |-> b, broke |-> FALSE, pc |-> "loop", out |-> <<>>] :
     c \in ContentIds, b \in BOOLEAN}

ProvideDocumentLinksCall ==
  /\ call.fn = "provideDocumentLinks" /\ call.pc = "loop"
  /\ call' = [call EXCEPT
       !.pc = "returned",
       !.broke = call.cancelled /\ parseWikiLinks(call.text) # <<>>,
       !.out = provideDocumentLinks(call.text, call.cancelled)]
  /\ UNCHANGED <<fs, clock, delPending, faults, store, linkCache, tasks,
                 asked, escaped>>

InitRefs ==
  /\ fs \in {f \in [Paths -> [exists : BOOLEAN, mtime : {1},
                               content : ContentIds]] :
               /\ f[A].exists /\ f[A].content \in {1, 6, 7}
               /\ f[B].content \in {4, 5}
               /\ f[D].exists /\ f[D].content \in {1, 4}}
  /\ clock = 1
  /\ delPending = {}
  /\ faults = 0
  /\ store = [p \in Paths |-> NoRec]
  /\ linkCache = [p \in Paths |-> NoEntry]
  /\ tasks = [i \in Slots |-> Idle]
  /\ asked = 0
  /\ escaped = FALSE
  /\ \/ call \in ReferenceCalls(fs)
     \/ call \in DocumentLinkCalls

NextRefs ==
  \/ FindAllReferencesStep
  \/ CancelRequested
  \/ ProvideDocumentLinksCall

SpecRefs == InitRefs /\ [][NextRefs]_vars

(***************************************************************************)
(* WikiLinkDiagnosticManager.setupEventListeners (diagnosticProvider.ts):  *)
(* the debounced validation.  call holds the clock in milliseconds, the    *)
(* timers of the event loop, the variable timeout of the closure, and for  *)
(* each open document the time of its last change notification, the number *)
(* of validations started since then and the time of the last one.         *)
(***************************************************************************)
\* setTimeout(..., 500)
DebounceMs == 500
\* the clock advances in steps of 250 ms up to MaxTime
TickMs == DebounceMs \div 2
MaxTime == 2000

OpenDocuments == {A, B}

\* let timeout: NodeJS.Timeout | undefined
NoTimeout == [absent |-> TRUE]

\* a handler that would set the new timer without clearing the pending one
ScheduledOnly(timers, timeout, document, now) ==
  timers \cup {[document |-> document, due |-> now + DebounceMs]}

\* if (timeout) clearTimeout(timeout); timeout = setTimeout(..., 500):
\* the timers of the event loop afterwards
Rescheduled(timers, timeout, document, now) ==
  (timers \ {timeout}) \cup {[document |-> document, due |-> now + DebounceMs]}

InitDebounce ==
  /\ fs = [p \in Paths |-> [exists |-> TRUE, mtime |-> 1, content |-> 4]]
  /\ clock = 1
  /\ delPending = {}
  /\ faults = 0
  /\ store = [p \in Paths |-> NoRec]
  /\ linkCache = [p \in Paths |-> NoEntry]
  /\ tasks = [i \in Slots |-> Idle]
  /\ asked = 0
  /\ escaped = FALSE
  /\ call = [fn |-> "diagnostics", now |-> 0, timers |-> {},
             timeout |-> NoTimeout,
             changed |-> [d \in OpenDocuments |-> 0 - 1],
             runs |-> [d \in OpenDocuments |-> 0],
             ranAt |-> [d \in OpenDocuments |-> 0 - 1]]

\* a timer that is due runs before anything else happens at that instant
TimerDue == \E t \in call.timers : t.due <= call.now

\* the listener of onDidChangeTextDocument for a change of document d
OnDidChangeTextDocument(d) ==
  /\ call.fn = "diagnostics" /\ ~TimerDue
  /\ call' = [call EXCEPT
       !.timers = Rescheduled(call.timers, call.timeout, d, call.now),
       !.timeout = [document |-> d, due |-> call.now + DebounceMs],
       !.changed[d] = call.now,
       !.runs[d] = 0]
  /\ UNCHANGED <<fs, clock, delPending, faults, store, linkCache, tasks,
                 asked, escaped>>

\* the timer callback: this.provider.validateDocument(event.document)
TimeoutFires ==
  /\ call.fn = "diagnostics"
  /\ \E t \in call.timers :
       /\ t.due <= call.now
       /\ call' = [call EXCEPT
            !.timers = call.timers \ {t},
            !.runs[t.document] = call.runs[t.document] + 1,
            !.ranAt[t.document] = call.now]
  /\ UNCHANGED <<fs, clock, delPending, faults, store, linkCache, tasks,
                 asked, escaped>>

\* time passes while no timer is due
Advance ==
  /\ call.fn = "diagnostics" /\ ~TimerDue
  /\ call.now + TickMs <= MaxTime
  /\ call' = [call EXCEPT !.now = call.now + TickMs]
  /\ UNCHANGED <<fs, clock, delPending, faults, store, linkCache, tasks,
                 asked, escaped>>

NextDebounce ==
  \/ \E d \in OpenDocuments : OnDidChangeTextDocument(d)
  \/ TimeoutFires
  \/ Advance

SpecDebounce == InitDebounce /\ [][NextDebounce]_vars

(***************************************************************************)
(* SettingsManager (settings.ts) and the settings watcher of               *)
(* FileWatcherService.  call holds the settings file (absent, invalid, or  *)
(* one of two complete valid files), the field settings, whether the       *)
(* callbacks are registered, and the watcher events not yet handled.       *)
(***************************************************************************)
\* number of writes and deletions of the settings file in a run
MaxSettingsEvents == 3

ValidSettingsFiles == {"valid1", "valid2"}
SettingsFiles == {"absent", "invalid"} \cup ValidSettingsFiles

\* SettingsSchema.parse(parsed): the six sections are required objects, so
\* a file holding all of them yields its values and anything else, the
\* empty object {} included, throws
SchemaParse(parsed) == IF parsed \in ValidSettingsFiles THEN parsed ELSE "throw"

\* loadSettings: the fields settings and registered afterwards.  A valid
\* file is stored and setupWatcher runs; otherwise the method goes on to
\* this.settings = SettingsSchema.parse({})
loadSettings(file, settings, registered) ==
  IF file # "absent" /\ SchemaParse(file) # "throw"
  THEN [settings |-> SchemaParse(file), registered |-> TRUE]
  ELSE [settings |-> IF SchemaParse("empty") # "throw"
                     THEN SchemaParse("empty") ELSE settings,
        registered |-> registered]

InitSettings ==
  /\ fs = [p \in Paths |-> [exists |-> TRUE, mtime |-> 1, content |-> 4]]
  /\ clock = 1
  /\ delPending = {}
  /\ faults = 0
  /\ store = [p \in Paths |-> NoRec]
  /\ linkCache = [p \in Paths |-> NoEntry]
  /\ tasks = [i \in Slots |-> Idle]
  /\ asked = 0
  /\ escaped = FALSE
  /\ call \in {[fn |-> "settings", pc |-> "start", file |-> f,
                 settings |-> "null", registered |-> FALSE,
                 events |-> <<>>, written |-> 0] : f \in SettingsFiles}

\* settingsManager.loadSettings() at activation
LoadSettingsCall ==
  /\ call.fn = "settings" /\ call.pc = "start"
  /\ LET r == loadSettings(call.file, call.settings, call.registered)
     IN call' = [call EXCEPT !.pc = "loaded", !.settings = r.settings,
                             !.registered = r.registered]
  /\ UNCHANGED <<fs, clock, delPending, faults, store, linkCache, tasks,
                 asked, escaped>>

\* the settings file is created or changed on disk
SettingsFileWritten(f) ==
  /\ call.fn = "settings" /\ call.pc = "loaded"
  /\ call.written < MaxSettingsEvents
  /\ f # "absent"
  /\ call' = [call EXCEPT
       !.file = f,
       !.written = call.written + 1,
       !.events = Append(call.events,
                         IF call.file = "absent" THEN "create" ELSE "change")]
  /\ UNCHANGED <<fs, clock, delPending, faults, store, linkCache, tasks,
                 asked, escaped>>

SettingsFileDeleted ==
  /\ call.fn = "settings" /\ call.pc = "loaded"
  /\ call.written < MaxSettingsEvents
  /\ call.file # "absent"
  /\ call' = [call EXCEPT !.file = "absent",
                           !.written = call.written + 1,
                           !.events = Append(call.events, "delete")]
  /\ UNCHANGED <<fs, clock, delPending, faults, store, linkCache, tasks,
                 asked, escaped>>

\* settingsWatcher.onDidChange / onDidCreate / onDidDelete: the registered
\* callbacks run inside try/catch; without a registered callback the event
\* does nothing
SettingsWatcherEvent ==
  /\ call.fn = "settings" /\ call.events # <<>>
  /\ LET event == Head(call.events)
         r == loadSettings(call.file, call.settings, call.registered)
     IN call' = [call EXCEPT
          !.events = Tail(call.events),
          !.settings =
             IF ~call.registered THEN call.settings
             ELSE IF event = "delete"
                  THEN (IF SchemaParse("empty") # "throw"
                        THEN SchemaParse("empty") ELSE call.settings)
                  ELSE r.settings,
          !.registered = IF call.registered /\ event # "delete"
                         THEN r.registered ELSE call.registered]
  /\ UNCHANGED <<fs, clock, delPending, faults, store, linkCache, tasks,
                 asked, escaped>>

NextSettings ==
  \/ LoadSettingsCall
  \/ \E f \in SettingsFiles : SettingsFileWritten(f)
  \/ SettingsFileDeleted
  \/ SettingsWatcherEvent

SpecSettings == InitSettings /\ [][NextSettings]_vars

(***************************************************************************)
(* TemplateProvider (templateProvider.ts).  call holds the files on disk,  *)
(* the onDidCreateFiles events not yet handled and the running handler.    *)
(***************************************************************************)
\* what reading a path that is not on disk gives
Missing == <<"ENOENT">>

NewTyp == <<"/", "w", "/", "n", ".", "t", "y", "p">>
OtherTyp == <<"/", "w", "/", "o", ".", "t", "y", "p">>
NewMd == <<"/", "w", "/", "n", ".", "m", "d">>
OutsideTyp == <<"/", "x", "/", "n", ".", "t", "y", "p">>
NewFiles == {NewTyp, OtherTyp, NewMd, OutsideTyp}

\* the files one WorkspaceEdit or explorer gesture creates
CreateBatches == {<<f>> : f \in NewFiles} \cup {<<NewTyp, OtherTyp>>}

\* a new file is empty or comes with text
NewContents == {<<>>, <<"x">>}

\* templates/default.typ.eta of the workspace folder: none, empty, or text
\* without tags
TemplateFiles == {Missing, <<>>, <<"H", "i">>}

\* eta.render("default.typ.eta", data) of a template without tags
render(template) == template

\* no listener of onDidCreateFiles is running
NoRun == [absent |-> TRUE]

InitTemplate ==
  /\ fs = [p \in Paths |-> [exists |-> TRUE, mtime |-> 1, content |-> 4]]
  /\ clock = 1
  /\ delPending = {}
  /\ faults = 0
  /\ store = [p \in Paths |-> NoRec]
  /\ linkCache = [p \in Paths |-> NoEntry]
  /\ tasks = [i \in Slots |-> Idle]
  /\ asked = 0
  /\ escaped = FALSE
  /\ call \in {[fn |-> "template", template |-> t,
                 disk |-> [f \in NewFiles |-> Missing],
                 born |-> [f \in NewFiles |-> Missing],
                 events |-> <<>>, run |-> NoRun, wrote |-> {}] :
                  t \in TemplateFiles}

\* files are created from the explorer or by workspace.applyEdit: VS Code
\* fires onDidCreateFiles with them
CreateFilesInEditor(files, c) ==
  /\ call.fn = "template"
  /\ \A k \in 1..Len(files) : call.born[files[k]] = Missing
  /\ call' = [call EXCEPT
       !.disk = [f \in NewFiles |->
                   IF \E k \in 1..Len(files) : files[k] = f THEN c ELSE @[f]],
       !.born = [f \in NewFiles |->
                   IF \E k \in 1..Len(files) : files[k] = f THEN c ELSE @[f]],
       !.events = Append(@, files)]
  /\ UNCHANGED <<fs, clock, delPending, faults, store, linkCache, tasks,
                 asked, escaped>>

\* a file is created on disk by another program (fs.writeFile, a shell):
\* file watchers see it, onDidCreateFiles is not fired
CreateFileOnDisk(f, c) ==
  /\ call.fn = "template"
  /\ call.born[f] = Missing
  /\ call' = [call EXCEPT !.disk[f] = c, !.born[f] = c]
  /\ UNCHANGED <<fs, clock, delPending, faults, store, linkCache, tasks,
                 asked, escaped>>

\* a file that was created is removed again
RemoveFile(f) ==
  /\ call.fn = "template"
  /\ call.disk[f] # Missing
  /\ call' = [call EXCEPT !.disk[f] = Missing]
  /\ UNCHANGED <<fs, clock, delPending, faults, store, linkCache, tasks,
                 asked, escaped>>

\* vscode.workspace.onDidCreateFiles(async (event) => { for (...) ... })
OnDidCreateFiles ==
  /\ call.fn = "template"
  /\ call.run = NoRun /\ call.events # <<>>
  /\ call' = [call EXCEPT !.run = [files |-> Head(call.events), pc |-> "stat"],
                          !.events = Tail(@)]
  /\ UNCHANGED <<fs, clock, delPending, faults, store, linkCache, tasks,
                 asked, escaped>>

\* the loop of the listener goes on to its next file, or the listener ends
NextFile(run) ==
  IF Tail(run.files) = <<>> THEN NoRun
  ELSE [files |-> Tail(run.files), pc |-> "stat"]

\* applyTemplate up to the end of await fs.stat: the two early returns, the
\* stat, which is outside the try and whose rejection leaves the listener,
\* and the return for a file that is not empty
ApplyTemplateStat ==
  /\ call.fn = "template"
  /\ call.run # NoRun /\ call.run.pc = "stat"
  /\ LET fileUri == Head(call.run.files)
         size == Len(call.disk[fileUri])
     IN call' = [call EXCEPT !.run =
          IF ~endsWith(fileUri, DotTyp) THEN NextFile(call.run)
          ELSE IF getWorkspaceFolder(fileUri) = Undef THEN NextFile(call.run)
          ELSE IF call.disk[fileUri] = Missing THEN NoRun
          ELSE IF size > 0 THEN NextFile(call.run)
          ELSE [call.run EXCEPT !.pc = "render"]]
  /\ UNCHANGED <<fs, clock, delPending, faults, store, linkCache, tasks,
                 asked, escaped>>

\* the try block: eta.render throws without a template, and the file is
\* written when the rendering is not the empty string
ApplyTemplateRender ==
  /\ call.fn = "template"
  /\ call.run # NoRun /\ call.run.pc = "render"
  /\ LET fileUri == Head(call.run.files)
         renderedContent == IF call.template = Missing THEN Undef
                            ELSE render(call.template)
         writes == renderedContent # Undef /\ renderedContent # <<>>
     IN call' = [call EXCEPT
          !.disk[fileUri] = IF writes THEN renderedContent ELSE @,
          !.wrote = IF writes THEN @ \cup {fileUri} ELSE @,
          !.run = NextFile(call.run)]
  /\ UNCHANGED <<fs, clock, delPending, faults, store, linkCache, tasks,
                 asked, escaped>>

NextTemplate ==
  \/ \E files \in CreateBatches : \E c \in NewContents :
       CreateFilesInEditor(files, c)
  \/ \E f \in NewFiles : \E c \in NewContents : CreateFileOnDisk(f, c)
  \/ \E f \in NewFiles : RemoveFile(f)
  \/ OnDidCreateFiles
  \/ ApplyTemplateStat
  \/ ApplyTemplateRender

SpecTemplate == InitTemplate /\ [][NextTemplate]_vars

(***************************************************************************)
(* Functions without side effects, each applied once to an input drawn     *)
(* from a finite set: call holds the input and then the result.            *)
(***************************************************************************)
\* values of metadata.alias, and query texts
AliasChoices ==
  {JsonUndefined, JsonString(<<"f", "o", "o">>), JsonArray(<<>>),
   JsonArray(<< <<"f", "o", "o">>, <<"b", "a", "r">> >>),
   JsonArray(<< <<"F", "o", "o">> >>),
   JsonArray(<< <<"F", "O", "O">>, <<"f", "o", "o", "d">> >>)}

AliasQueries ==
  {<<"f", "o">>, <<"F", "O">>, <<"o">>, <<"x">>, <<>>, <<"b", "a", "r">>,
   <<"o", "o", "d">>}

\* a store holding a.typ and b.typ, indexed with the given metadata
AliasStore(metaA, metaB) ==
  [p \in Paths |->
     IF p = A THEN FileData(A, 1, [alias |-> metaA], Scanned[4])
     ELSE IF p = B THEN FileData(B, 1, [alias |-> metaB], Scanned[4])
     ELSE NoRec]

AliasCalls ==
  {[fn |-> "alias", query |-> q, metaA |-> ma, metaB |-> mb, done |-> FALSE,
    out |-> <<>>] : q \in AliasQueries, ma \in AliasChoices,
                    mb \in AliasChoices}

SearchAliasCall ==
  /\ call.fn = "alias" /\ ~call.done
  /\ call' = [call EXCEPT
       !.done = TRUE,
       !.out = LET files == searchFilesByAlias(
                              AliasStore(call.metaA, call.metaB), call.query)
               IN [k \in 1..Len(files) |-> files[k].filePath]]
  /\ UNCHANGED <<fs, clock, delPending, faults, store, linkCache, tasks,
                 asked, escaped>>

\* number of lines of a document handed to the label locator
MaxLines == 3

LocateLines ==
  {<<"=", " ", "I", "n", "t", "r", "o">>,
   <<"x", " ", "<", "I", "n", "t", "r", "o", ">">>,
   <<"/", "/", " ", "I", "n", "t", "r", "o">>,
   <<"/", "*", " ", "I", "n", "t", "r", "o", " ", "*", "/">>,
   <<"s", "e", "e", " ", "I", "n", "t", "r", "o">>,
   <<"o", "t", "h", "e", "r">>,
   <<"=", "=", " ", "i", "n", "t", "r", "o", " ">>}

LocateLabels ==
  {<<"I", "n", "t", "r", "o">>,
   <<"i", "n", "t", "r", "o">>,
   <<"n", "o", "p", "e">>}

RECURSIVE JoinLines(_)
JoinLines(lines) ==
  IF Len(lines) = 1 THEN lines[1]
  ELSE lines[1] \o <<NL>> \o JoinLines(Tail(lines))

LocateTexts ==
  {JoinLines(ls) : ls \in UNION {[1..n -> LocateLines] : n \in 1..MaxLines}}

LocateCalls ==
  {[fn |-> "locate", text |-> t, label |-> l, done |-> FALSE,
    res |-> NotFound] : t \in LocateTexts, l \in LocateLabels}

FindLabelCall ==
  /\ call.fn = "locate" /\ ~call.done
  /\ call' = [call EXCEPT !.done = TRUE,
                           !.res = findLabel(call.text, call.label)]
  /\ UNCHANGED <<fs, clock, delPending, faults, store, linkCache, tasks,
                 asked, escaped>>

ScanTexts ==
  {<<"[", "[", "b", "]", "]">>,
   <<"[", "[", " ", "]", "]">>,
   <<"[", "[", ":", "s", "e", "c", "]", "]">>,
   <<"[", "[", "b">>,
   <<"[", "[", "b", ":", "s", "e", "c", "|", "a", "l", "]", "]", " ", "[", "[", "d", "]", "]">>,
   <<"[", "[", "b", "|", "a", "l", "]", "]">>,
   <<"x">>,
   <<"[", "[", "a", ":", "b", ":", "c", "]", "]">>,
   <<"[", "[", "b", "]", "]", " ", "[", "[", " ", "]", "]">>,
   <<"a", "\n", "[", "[", "d", ":", "s", "]", "]">>,
   <<"[", "[", "a", "]">>}

ScanCalls ==
  {[fn |-> f, text |-> t, done |-> FALSE, links |-> <<>>] :
     f \in {"extractWikilinks", "parseWikiLinks"}, t \in ScanTexts}

ExtractWikilinksCall ==
  /\ call.fn = "extractWikilinks" /\ ~call.done
  /\ call' = [call EXCEPT
       !.done = TRUE,
       !.links = LET found == extractWikilinks(call.text)
                 IN [k \in 1..Len(found) |->
                       [path |-> found[k].targetFile,
                        range |-> found[k].range]]]
  /\ UNCHANGED <<fs, clock, delPending, faults, store, linkCache, tasks,
                 asked, escaped>>

ParseWikiLinksCall ==
  /\ call.fn = "parseWikiLinks" /\ ~call.done
  /\ call' = [call EXCEPT
       !.done = TRUE,
       !.links = LET found == parseWikiLinks(call.text)
                 IN [k \in 1..Len(found) |->
                       [path |-> found[k].filePath,
                        range |-> found[k].range]]]
  /\ UNCHANGED <<fs, clock, delPending, faults, store, linkCache, tasks,
                 asked, escaped>>

ResolveSources ==
  {<<"/", "w", "/", "a", ".", "t", "y", "p">>,
   <<"/", "w", "/", "s", "u", "b", "/", "s", ".", "t", "y", "p">>,
   <<"/", "x", "/", "o", ".", "t", "y", "p">>}

ResolveTargets ==
  {<<"b">>,
   <<"b", ".", "t", "y", "p">>,
   <<".", ".", "/", "b">>,
   <<"s", "u", "b", "/", "c">>,
   <<"/", "w", "/", "d", ".", "t", "y", "p">>,
   <<"/", "x", "/", "e">>,
   <<".", "/", "b">>}

\* a link target resolved, shown as a display path, and resolved again
ResolveCalls ==
  {[fn |-> "resolve", source |-> src, target |-> t, stage |-> "start",
    c |-> <<>>, display |-> <<>>, again |-> <<>>] :
     src \in ResolveSources, t \in ResolveTargets}

ResolveFilePathCall ==
  /\ call.fn = "resolve" /\ call.stage \in {"start", "displayed"}
  /\ call' = IF call.stage = "start"
             THEN [call EXCEPT
                    !.stage = "resolved",
                    !.c = resolveFilePath(call.source,
                            ensureTypstExtension(call.target))]
             ELSE [call EXCEPT
                    !.stage = "done",
                    !.again = resolveFilePath(call.source,
                                ensureTypstExtension(call.display))]
  /\ UNCHANGED <<fs, clock, delPending, faults, store, linkCache, tasks,
                 asked, escaped>>

GetWorkspaceRelativePathCall ==
  /\ call.fn = "resolve" /\ call.stage = "resolved"
  /\ call' = [call EXCEPT !.stage = "displayed",
                           !.display = getWorkspaceRelativePath(call.c)]
  /\ UNCHANGED <<fs, clock, delPending, faults, store, linkCache, tasks,
                 asked, escaped>>

RenameSources ==
  {<<"/", "w", "/", "a", ".", "t", "y", "p">>,
   <<"/", "w", "/", "s", "u", "b", "/", "s", ".", "t", "y", "p">>}

RenameTexts ==
  {<<"[", "[", "b", "]", "]">>,
   <<"[", "[", "b", ".", "t", "y", "p", ":", "s", "e", "c", "|", "a", "l", "]", "]">>,
   <<"[", "[", ".", "/", "b", "]", "]">>,
   <<"[", "[", ".", ".", "/", "b", "]", "]">>,
   <<"[", "[", "d", "]", "]", " ", "x", " ", "[", "[", "b", "]", "]">>,
   <<"[", "[", "c", "]", "]">>,
   <<"s", "e", "e", "\n", "[", "[", "b", "|", "a", "l", "]", "]", " ", "[", "[", "b", ":", "s", "e", "c", "]", "]">>}

Renames ==
  {<<<<"/", "w", "/", "b", ".", "t", "y", "p">>,
     <<"/", "w", "/", "e", ".", "t", "y", "p">>>>,
   <<<<"/", "w", "/", "s", "u", "b", "/", "c", ".", "t", "y", "p">>,
     <<"/", "w", "/", "s", "u", "b", "/", "e", ".", "t", "y", "p">>>>,
   <<<<"/", "w", "/", "b", ".", "t", "y", "p">>,
     <<"/", "w", "/", "s", "u", "b", "/", "b", ".", "t", "y", "p">>>>}

RenameCalls ==
  {[fn |-> "rename", source |-> src, text |-> t, oldUri |-> r[1],
    newUri |-> r[2], done |-> FALSE, updatedText |-> <<>>] :
     src \in RenameSources, t \in RenameTexts, r \in Renames}

\* the rename handler, after the user confirmed the update
UpdateLinksForRenameCall ==
  /\ call.fn = "rename" /\ ~call.done
  /\ call' = [call EXCEPT
       !.done = TRUE,
       !.updatedText =
          updateLinksForRename(call.source, call.text,
            createRenameOperation(call.oldUri, call.newUri))]
  /\ UNCHANGED <<fs, clock, delPending, faults, store, linkCache, tasks,
                 asked, escaped>>

\* what happened to the path in the store before isFileIndexed is asked
IndexedHistories == {"never", "upserted", "deleted"}

StoreAfter(history, p) ==
  LET empty == [q \in Paths |-> NoRec]
      upserted == upsertFile(empty, FileData(p, 1, EmptyMetadata, Scanned[4]))
  IN IF history = "never" THEN empty
     ELSE IF history = "upserted" THEN upserted
     ELSE deleteFile(upserted, p)

IsFileIndexedCalls ==
  {[fn |-> "isFileIndexed", path |-> p, history |-> h, done |-> FALSE,
    out |-> FALSE] : p \in Paths, h \in IndexedHistories}

IsFileIndexedCall ==
  /\ call.fn = "isFileIndexed" /\ ~call.done
  /\ call' = [call EXCEPT
       !.done = TRUE,
       !.out = isFileIndexed(StoreAfter(call.history, call.path), call.path)]
  /\ UNCHANGED <<fs, clock, delPending, faults, store, linkCache, tasks,
                 asked, escaped>>

\* the four forms of a link, each with the parts it is written from: the
\* text before the first ":" or "|", the text between ":" and "|", the text
\* after "|", all trimmed and empty when absent
WikilinkForms ==
  {[text |-> <<"[", "[", "b", "]", "]">>,
    target |-> <<"b">>, label |-> <<>>, alias |-> <<>>],
   [text |-> <<"[", "[", "b", ":", "s", "e", "c", "]", "]">>,
    target |-> <<"b">>, label |-> <<"s", "e", "c">>, alias |-> <<>>],
   [text |-> <<"[", "[", "b", ":", "s", "e", "c", "|", "a", "l", "]", "]">>,
    target |-> <<"b">>, label |-> <<"s", "e", "c">>, alias |-> <<"a", "l">>],
   [text |-> <<"[", "[", "b", "|", "a", "l", "]", "]">>,
    target |-> <<"b">>, label |-> <<>>, alias |-> <<"a", "l">>],
   [text |-> <<"[", "[", " ", "b", " ", ":", " ", "s", "e", "c", " ", "|", " ", "a", "l", " ", "]", "]">>,
    target |-> <<"b">>, label |-> <<"s", "e", "c">>, alias |-> <<"a", "l">>],
   [text |-> <<"[", "[", " ", "b", " ", "|", " ", "a", "l", " ", "]", "]">>,
    target |-> <<"b">>, label |-> <<>>, alias |-> <<"a", "l">>]}

FormCalls ==
  {[fn |-> "linkForm", form |-> f, done |-> FALSE, stored |-> <<>>,
    scanned |-> <<>>] : f \in WikilinkForms}

\* a part of a link, the empty text when it is undefined
PartOrEmpty(part) == IF Truthy(part) THEN part ELSE <<>>

\* the links extraction stores for the text and the links the document-link
\* scanner finds in it, part by part
WikilinkFormCall ==
  /\ call.fn = "linkForm" /\ ~call.done
  /\ call' = [call EXCEPT
       !.done = TRUE,
       !.stored = LET found == extractWikilinks(call.form.text)
                  IN [k \in 1..Len(found) |->
                        [target |-> found[k].targetFile,
                         label |-> PartOrEmpty(found[k].label),
                         alias |-> PartOrEmpty(found[k].alias)]],
       !.scanned = LET found == parseWikiLinks(call.form.text)
                   IN [k \in 1..Len(found) |->
                         [target |-> found[k].filePath,
                          label |-> PartOrEmpty(found[k].label),
                          alias |-> PartOrEmpty(found[k].alias)]]]
  /\ UNCHANGED <<fs, clock, delPending, faults, store, linkCache, tasks,
                 asked, escaped>>

InitPure ==
  /\ fs = [p \in Paths |-> [exists |-> FALSE, mtime |-> 0, content |-> 4]]
  /\ clock = 1
  /\ delPending = {}
  /\ faults = 0
  /\ store = [p \in Paths |-> NoRec]
  /\ linkCache = [p \in Paths |-> NoEntry]
  /\ tasks = [i \in Slots |-> Idle]
  /\ asked = 0
  /\ escaped = FALSE
  /\ \/ call \in AliasCalls
     \/ call \in LocateCalls
     \/ call \in ScanCalls
     \/ call \in ResolveCalls
     \/ call \in RenameCalls
     \/ call \in IsFileIndexedCalls
     \/ call \in FormCalls

NextPure ==
  \/ SearchAliasCall
  \/ FindLabelCall
  \/ ExtractWikilinksCall
  \/ ParseWikiLinksCall
  \/ ResolveFilePathCall
  \/ GetWorkspaceRelativePathCall
  \/ UpdateLinksForRenameCall
  \/ IsFileIndexedCall
  \/ WikilinkFormCall

SpecPure == InitPure /\ [][NextPure]_vars


(***************************************************************************)
(* Properties of the index (spec.md, sections 3 to 8).                     *)
(***************************************************************************)
UpdatePcs == {"stat", "access", "query", "text"}

\* no update of p is running and no delete notification of p is pending
Settled(p) ==
  /\ p \notin delPending
  /\ \A i \in Slots : ~(tasks[i].pc \in UpdatePcs /\ tasks[i].path = p)

\* the links of a FileLinks list whose field fld has the value v
LinksWith(links, fld, v) == {k \in 1..Len(links) : links[k][fld] = v}

\* C1: once the notifications for a document have stopped and every update
\* of it has finished, the stored record of the document (metadata, aliases,
\* labels, headings, links, lastModified) is the one extracted from the
\* document's last state.
C1_LastStateWins ==
  \A p \in Paths :
    (Settled(p) /\ fs[p].exists) => store[p] = RecordOf(p, fs[p])

\* C2: a getFileLinks call made after the delete notification of P was
\* handled, with P's record absent from the store, returns no backward link
\* whose source is P.
C2_NoLinkFromDeleted ==
  QT.pc = "ret" =>
    \A P \in QT.gone :
      store[P] = NoRec => LinksWith(QT.res.backwardLinks, "sourceFile", P) = {}

\* C3: a stored record S is returned by getFilesWithWikilinksTo(T) exactly
\* when one of its links, resolved against S's directory with the extension
\* appended, equals T.
C3_LinkingFilesResolve ==
  \A S \in Paths : \A T \in Paths :
    store[S] # NoRec =>
      (HasLinkTo(store[S], T)
         <=> \E k \in 1..Len(store[S].wikilinks) :
               ResolveLink(S, store[S].wikilinks[k].targetFile) = T)

\* C4: every step that upserts or deletes the record of P leaves the link
\* cache without an entry for P.
C4_CacheInvalidated ==
  [][\A p \in Paths : store'[p] # store[p] => linkCache'[p] = NoEntry]_vars

\* C5: after b.typ was renamed to d.typ and a.typ was rewritten to contain
\* [[d:intro]], with all notifications handled and all updates finished, the
\* backward scan of b.typ finds nothing and the backward scan of d.typ finds
\* the link from a.typ.
C5_RenameThenRelink ==
  ( /\ ~fs[B].exists /\ fs[D].exists /\ fs[A].exists
    /\ Settled(A) /\ Settled(B) /\ Settled(D)
    /\ Contents[fs[A].content].text = TxtLinkD
    /\ store[A] = RecordOf(A, fs[A]) )
  => /\ BackwardMatches(store, B) = <<>>
     /\ LinksWith(BackwardMatches(store, D), "sourceFile", A) # {}

\* C6: in the initial workspace (a.typ holds [[b:intro]], b.typ holds the
\* heading "= Intro", both indexed, nothing changed since) getFileLinks of
\* a.typ returns one forward link, with exists = true, labelExists = true and
\* b.typ's path as target.
C6_HeadingLabelFound ==
  (QT.pc = "ret" /\ QT.path = A /\ clock = 1) =>
    /\ Len(QT.res.forwardLinks) = 1
    /\ QT.res.forwardLinks[1].targetFile = B
    /\ QT.res.forwardLinks[1].exists
    /\ QT.res.forwardLinks[1].labelExists = "true"

\* C7: a getFileLinks call for a.typ made after b.typ was deleted and its
\* delete notification handled returns every forward link to b.typ with
\* exists = false and labelExists undefined.
C7_DeletedTargetReported ==
  (QT.pc = "ret" /\ QT.path = A /\ B \in QT.gone) =>
    \A k \in LinksWith(QT.res.forwardLinks, "targetFile", B) :
      /\ ~QT.res.forwardLinks[k].exists
      /\ QT.res.forwardLinks[k].labelExists = "undefined"

\* C8: the record of a document changes only as a whole: every step that
\* changes it either deletes it or installs the complete record extracted by
\* one update in flight, so that a reader finds the previous record or the
\* new one and never a record with fields of both.
C8_WholeRecordReplaced ==
  [][\A p \in Paths :
       store'[p] # store[p] =>
         \/ store'[p] = NoRec
         \/ \E i \in Slots :
              /\ tasks[i].pc = "text" /\ tasks[i].path = p
              /\ store'[p] = FileData(p, tasks[i].mt, tasks[i].md,
                                      Scanned[fs[p].content])]_vars

\* a getFileLinks call has read the record of a.typ, and an update of a.typ
\* has replaced the record since
C8_ReaderDuringUpsert ==
  /\ QT.pc \in {"fwdExists", "fwdLabels"} /\ QT.path = A
  /\ store[A] # NoRec /\ store[A].wikilinks # QT.links
  /\ QT.links # <<>>

\* C9: ensureFileIndexed of a document whose mtime equals the stored
\* lastModified returns without re-extracting and leaves the store as it is;
\* and the upsert that ends a re-extraction of a document whose text, mtime
\* and metadata answer are those of the stored record leaves the record as
\* it is.
C9_Idempotent ==
  [][ /\ ( /\ QT.pc = "ensLast" /\ QT'.pc # "ensLast"
           /\ QT.mt = getLastModified(store, QT.path) )
         => (QT'.pc = "fwdGet" /\ store' = store)
      /\ \A i \in Slots :
           ( /\ tasks[i].pc = "text" /\ tasks'[i] # tasks[i]
             /\ fs[tasks[i].path].exists
             /\ tasks[i].mt = fs[tasks[i].path].mtime
             /\ tasks[i].md = Contents[fs[tasks[i].path].content].meta
             /\ store[tasks[i].path] = RecordOf(tasks[i].path,
                                                fs[tasks[i].path]) )
           => store'[tasks[i].path] = store[tasks[i].path] ]_vars

\* ensureFileIndexed has returned at an equal mtime while a refresh of the
\* same unchanged document is about to upsert
C9_SkippedAndRefreshed ==
  /\ QT.pc = "fwdGet" /\ QT.mt # 0
  /\ QT.mt = getLastModified(store, QT.path)
  /\ \E i \in UpdateSlots :
       /\ tasks[i].pc = "text" /\ tasks[i].path = QT.path
       /\ tasks[i].mt = QT.mt
       /\ store[QT.path] = RecordOf(QT.path, fs[QT.path])

\* position of a path in the order findFiles reports
PathPos(p) == CHOOSE k \in 1..Len(PathOrder) : PathOrder[k] = p

\* what the store holds for p is what one extraction of p's file yields;
\* the metadata is {} when the metadata query failed
FreshRecord(p) ==
  /\ store[p] # NoRec
  /\ \E md \in {Contents[fs[p].content].meta, EmptyMetadata} :
       store[p] = FileData(p, fs[p].mtime, md, Scanned[fs[p].content])

\* C10: when indexWorkspace completes it has gone through every document it
\* found, each failure has cost at most the one document it hit, and every
\* document whose own extraction and upsert succeeded has its fresh record in
\* the store.
C10_BatchIsolated ==
  LET t == tasks[BatchSlot] IN
  t.pc = "done" =>
    /\ t.todo = <<>>
    /\ t.ok \subseteq t.found
    /\ Cardinality(t.found \ t.ok) <= MaxFaults - faults
    /\ \A p \in t.ok : FreshRecord(p)

\* indexWorkspace has completed, a document failed and a later one succeeded
C10_FailureThenSuccess ==
  LET t == tasks[BatchSlot] IN
  /\ t.pc = "done"
  /\ \E q \in t.found \ t.ok : \E p \in t.ok :
       PathPos(q) < PathPos(p) /\ FreshRecord(p)

\* C11: a step in which a storage or file operation of an update or of a
\* delete fails leaves every stored record as it was, and no exception ever
\* leaves a notification handler.
C11_FailureLeavesStore ==
  [][(faults' < faults => store' = store) /\ ~escaped']_vars

\* the only event so far was a delete whose deleteFile failed: the record
\* is still there
C11_DeleteFailed ==
  /\ clock = 2 /\ faults = MaxFaults - 1
  /\ \A i \in Slots : tasks[i].pc = "idle"
  /\ \E p \in GoneNow : store[p] # NoRec

\* C12: when the metadata query fails or gives nothing usable the update
\* goes on with empty metadata, and its upsert stores a record with empty
\* metadata, no aliases, and the labels, headings and links of the text.
C12_EmptyMetadataIndexed ==
  [][\A i \in Slots :
       /\ ( /\ tasks[i].pc = "query" /\ tasks'[i] # tasks[i]
            /\ faults' < faults )
          => (tasks'[i].pc = "text" /\ tasks'[i].md = EmptyMetadata)
       /\ ( /\ tasks[i].pc = "text" /\ tasks'[i] # tasks[i]
            /\ tasks[i].md = EmptyMetadata
            /\ faults' = faults /\ fs[tasks[i].path].exists )
          => LET r == store'[tasks[i].path]
                 scan == Scanned[fs[tasks[i].path].content]
             IN /\ r # NoRec
                /\ r.metadata = EmptyMetadata /\ r.aliases = <<>>
                /\ r.lastModified = tasks[i].mt
                /\ Len(r.labels) = Len(scan.labels)
                /\ Len(r.headings) = Len(scan.headings)
                /\ Len(r.wikilinks) = Len(scan.wikilinks)
                /\ \A k \in 1..Len(r.labels) :
                     r.labels[k].name = scan.labels[k].name
                /\ \A k \in 1..Len(r.wikilinks) :
                     r.wikilinks[k].targetFile = scan.wikilinks[k].targetFile]_vars

\* after one save of a document that declares aliases, with the metadata
\* query failing, the document is indexed with empty metadata
C12_IndexedWithoutMetadata ==
  /\ clock = 2 /\ faults = MaxFaults - 1
  /\ \A i \in Slots : tasks[i].pc = "idle"
  /\ \E p \in Paths :
       /\ fs[p].exists /\ fs[p].mtime = 2
       /\ Contents[fs[p].content].meta # EmptyMetadata
       /\ store[p] = FileData(p, 2, EmptyMetadata, Scanned[fs[p].content])

\* the forward links a getFileLinks call has collected, returned or cached
ReportedForward ==
  {QT.fwd[k] : k \in 1..Len(QT.fwd)}
  \cup (IF QT.res = NoEntry THEN {}
        ELSE {QT.res.forwardLinks[k] : k \in 1..Len(QT.res.forwardLinks)})
  \cup UNION {IF linkCache[p] = NoEntry THEN {}
              ELSE {linkCache[p].forwardLinks[k] :
                      k \in 1..Len(linkCache[p].forwardLinks)} : p \in Paths}

\* the text of the document at path holds no label, heading or comment
\* with this name
NotInText(path, name) ==
  ~LabelNamed(Scanned[fs[path].content].labels, name)

\* C13: every forward link reported has labelExists defined exactly when
\* the link names a label and its target was found to exist, so a missing
\* target is reported with exists = false and labelExists undefined; and
\* while nothing changes on disk the links returned have exists equal to
\* the target's existence and labelExists = false for a label that the
\* existing target does not hold.
C13_MissesAreValues ==
  /\ \A e \in ReportedForward :
       /\ e.labelExists \in {"true", "false", "undefined"}
       /\ (e.labelExists # "undefined") <=> (Truthy(e.label) /\ e.exists)
  /\ (QT.pc = "ret" /\ clock = 1) =>
       \A k \in 1..Len(QT.res.forwardLinks) :
         LET e == QT.res.forwardLinks[k] IN
         /\ e.exists = fileExists(fs, e.targetFile)
         /\ (e.exists /\ Truthy(e.label) /\ NotInText(e.targetFile, e.label))
              => e.labelExists = "false"

\* getFileLinks of a.typ, which holds [[b:nope]], has returned exists =
\* true and labelExists = false; a call for a document whose target is
\* missing has been answered as well
C13_LabelMissReported ==
  /\ QT.pc = "ret" /\ QT.path = A /\ clock = 1
  /\ Contents[fs[A].content].text = TxtNope
  /\ Len(QT.res.forwardLinks) = 1
  /\ QT.res.forwardLinks[1].exists
  /\ QT.res.forwardLinks[1].labelExists = "false"

\* C14: no step of a getFileLinks call inserts, replaces or deletes a
\* record: the store after each step of the query is the store before it.
C14_QueriesReadOnly ==
  [][tasks'[QuerySlot] # tasks[QuerySlot] => store' = store]_vars

\* q occurs in the alias when letter case is ignored
ContainsIgnoringCase(alias, q) ==
  \E i \in 1..(Len(alias) - Len(q) + 1) :
    \A j \in 1..Len(q) : LowerChar(alias[i + j - 1]) = LowerChar(q[j])

\* C16: the partial alias search returns an indexed document exactly once
\* when at least one of the aliases in its metadata.alias contains the
\* query text, letter case ignored, and does not return it otherwise.
C16_AliasSearchOnce ==
  (call.fn = "alias" /\ call.done) =>
    \A p \in {A, B} :
      LET meta == IF p = A THEN call.metaA ELSE call.metaB
          items == IF meta.kind = "array" THEN meta.items ELSE <<>>
          hit == \E k \in 1..Len(items) :
                   ContainsIgnoringCase(items[k], call.query)
      IN Cardinality({k \in 1..Len(call.out) : call.out[k] = p})
           = IF hit THEN 1 ELSE 0

\* the search for "fo" has returned a.typ once although two of its
\* aliases, FOO and food, match
C16_TwoAliasesOneHit ==
  /\ call.fn = "alias" /\ call.done
  /\ call.query = <<"f", "o">>
  /\ call.metaA = JsonArray(<< <<"F", "O", "O">>, <<"f", "o", "o", "d">> >>)
  /\ Cardinality({k \in 1..Len(call.out) : call.out[k] = A}) = 1

\* the text of a heading line, of a // comment line and of the first block
\* comment of a line; Undef when the line is not of that kind
HeadingText(line) ==
  LET w == RunIn(line, 1, WhiteSpace)
      k == RunIn(line, 1 + w, {"="})
  IN IF k >= 1 THEN trim(SubSeq(line, 1 + w + k, Len(line))) ELSE Undef

LineCommentText(line) ==
  LET w == RunIn(line, 1, WhiteSpace)
  IN IF MatchAt(line, 1 + w, <<"/", "/">>)
     THEN trim(SubSeq(line, 3 + w, Len(line))) ELSE Undef

BlockCommentText(line) ==
  LET ok == {<<i, j>> \in (1..Len(line)) \X (1..Len(line)) :
               /\ j >= i + 2
               /\ MatchAt(line, i, <<"/", "*">>)
               /\ MatchAt(line, j, <<"*", "/">>)
               /\ \A k \in (i + 2)..(j - 1) : line[k] # "*"}
      first == CHOOSE c \in ok : \A d \in ok : c[1] <= d[1]
  IN IF ok = {} THEN Undef
     ELSE trim(SubSeq(line, first[1] + 2, first[2] - 1))

SameIgnoringCase(text, name) ==
  text # Undef /\ toLowerCase(text) = toLowerCase(name)

\* strategy n of the locator hits the line; blocks tells whether a block
\* comment counts as a comment
StrategyHits(n, line, name, blocks) ==
  IF n = 2 THEN SameIgnoringCase(HeadingText(line), name)
  ELSE IF n = 3
       THEN \/ SameIgnoringCase(LineCommentText(line), name)
            \/ blocks /\ SameIgnoringCase(BlockCommentText(line), name)
  ELSE ContainsIgnoringCase(line, name)

\* the result of the located call is the first hit of the first strategy
\* that hits anywhere in the text
FirstStrategyWins(blocks) ==
  LET text == call.text
      name == call.label
      lines == split(text, NL)
      tag == <<"<">> \o name \o <<">">>
      hits == {<<n, i>> \in (2..4) \X (1..Len(lines)) :
                 StrategyHits(n, lines[i], name, blocks)}
      first == CHOOSE h \in hits :
                 \A g \in hits : h[1] < g[1] \/ (h[1] = g[1] /\ h[2] <= g[2])
  IN IF includes(text, tag)
     THEN /\ call.res.found
          /\ call.res.position =
               [line |-> LineOf(text, indexOf(text, tag) - 1),
                character |-> indexOf(text, tag)
                                - LineStartOf(text, indexOf(text, tag) - 1)]
     ELSE IF hits # {}
          THEN call.res.found /\ call.res.position.line = first[2] - 1
          ELSE ~call.res.found

\* C17: locate(text, name) tries, in this order, the explicit label <name>,
\* a heading whose trimmed text equals name, a comment whose trimmed text
\* equals name (a // comment or the first one-line block comment of a
\* line), and a line containing name; the result is the first hit of the
\* first strategy that hits anywhere in the text, whatever the order of the
\* lines, and found is false only when no strategy hits.
C17_LocatorPrecedence ==
  (call.fn = "locate" /\ call.done) => FirstStrategyWins(TRUE)

\* C17 as stated, with single-line comments as the only comments of the
\* third strategy: the result of locate is the first hit of the first of
\* the four strategies that hits.
C17_SingleLineCommentsOnly ==
  (call.fn = "locate" /\ call.done) => FirstStrategyWins(FALSE)

\* the explicit label <Intro> on the second line has been returned although
\* the first line is the heading Intro
C17_LabelBeatsEarlierHeading ==
  /\ call.fn = "locate" /\ call.done
  /\ call.label = <<"I", "n", "t", "r", "o">>
  /\ call.text = <<"=", " ", "I", "n", "t", "r", "o", "\n", "x", " ", "<", "I", "n", "t", "r", "o", ">">>
  /\ call.res.found
  /\ call.res.position = [line |-> 1, character |-> 3]

\* the number of well-formed links of the text from position i on: a
\* well-formed link is [[, a body without ], and ]], whose path (the body
\* up to its first : or |) is not empty after trimming
RECURSIVE WellFormedFrom(_, _)
WellFormedFrom(s, i) ==
  IF i > Len(s) THEN 0
  ELSE LET n == RunNotIn(s, i + 2, {"]"})
           body == SubSeq(s, i + 2, i + 1 + n)
           path == SubSeq(body, 1, RunNotIn(body, 1, {":", "|"}))
       IN IF MatchAt(s, i, <<"[", "[">>) /\ MatchAt(s, i + 2 + n, <<"]", "]">>)
          THEN (IF trim(path) # <<>> THEN 1 ELSE 0)
               + WellFormedFrom(s, i + n + 4)
          ELSE WellFormedFrom(s, i + 1)

\* C18: for a text with N well-formed [[..]] occurrences and M ill-formed
\* ones a scanner returns exactly N links, left to right and without
\* overlap; an unterminated [[ and a link whose path is empty after
\* trimming ([[ ]], [[:label]]) are ill-formed and are not returned.
C18_OnlyWellFormedLinks ==
  (call.fn \in {"extractWikilinks", "parseWikiLinks"} /\ call.done) =>
    /\ Len(call.links) = WellFormedFrom(call.text, 1)
    /\ \A k \in 1..Len(call.links) : call.links[k].path # <<>>
    /\ \A k \in 1..(Len(call.links) - 1) :
         LET e == call.links[k].range.end
             b == call.links[k + 1].range.start
         IN e.line < b.line \/ (e.line = b.line /\ e.character <= b.character)

\* C19: for every source document S and link target t, with
\* c = resolve(S, t), resolving the workspace-relative display path of c
\* against the same source S yields c again.
C19_PathRoundTrip ==
  (call.fn = "resolve" /\ call.stage = "done") => call.again = call.c

\* C20: after a file T is renamed to T' and the update is confirmed, every
\* wiki link of a workspace document that resolved to T before the rename
\* resolves to T' afterwards with its label and alias unchanged, and every
\* link that did not resolve to T is left textually unchanged.
C20_RenameKeepsLinks ==
  (call.fn = "rename" /\ call.done) =>
    LET before == scanDocument(call.text)
        after == scanDocument(call.updatedText)
    IN /\ Len(after) = Len(before)
       /\ \A k \in 1..Len(before) :
            IF resolveLinkPath(call.source, before[k].filePath) = call.oldUri
            THEN /\ resolveLinkPath(call.source, after[k].filePath)
                      = call.newUri
                 /\ after[k].label = before[k].label
                 /\ after[k].alias = before[k].alias
            ELSE after[k].fullMatch = before[k].fullMatch

\* C15: a query takes a cancellation signal, and when cancellation is
\* requested during the query the results computed so far are discarded,
\* not returned to the caller, and the store is not changed.
C15_CancelledDiscards ==
  /\ (call.pc = "returned" /\ call.broke) => call.out = <<>>
  /\ store = [p \in Paths |-> NoRec]

\* C30: isFileIndexed(P) returns true exactly when the store holds a record
\* for P: false for a path that was never indexed or whose record was
\* deleted, true after an upsert of P.
C30_IndexedIffRecord ==
  (call.fn = "isFileIndexed" /\ call.done) =>
    (call.out <=> getFile(StoreAfter(call.history, call.path), call.path)
                    # NoRec)

C29_DebouncePerDocument ==
  \A d \in OpenDocuments :
    (call.changed[d] >= 0 /\ call.now > call.changed[d] + DebounceMs)
      => call.runs[d] = 1

\* C24: after loadSettings, whatever the settings file was at first load,
\* once a later creation, change or deletion of the file has been handled
\* getSettings() returns the values parsed from the file, and all defaults
\* when the file is invalid or deleted.
C24_SettingsFollowFile ==
  (call.fn = "settings" /\ call.pc = "loaded" /\ call.written > 0
     /\ call.events = <<>>) =>
    call.settings = IF call.file \in ValidSettingsFiles THEN call.file
                    ELSE "defaults"

\* C28: after initialize() or refreshAll() has completed on a persisted
\* store with no concurrent file events, every record of the store belongs
\* to a document that exists in the workspace.
C28_NoRecordOfMissingFile ==
  tasks[BatchSlot].pc = "idle" =>
    \A p \in Paths : store[p] # NoRec => fs[p].exists


\* C25: a deleted document stays unindexed: once the delete notification of
\* a document that no longer exists has been processed and every update of
\* the document, those that started before the delete included, has
\* finished, the store holds no record of the document.
C25_DeletedStaysUnindexed ==
  \A p \in Paths :
    (~fs[p].exists /\ Settled(p)) => store[p] = NoRec


\* the targets and labels of a list of forward links
ForwardTargets(links) ==
  [k \in 1..Len(links) |-> <<links[k].targetFile, links[k].label>>]

\* the targets and labels getForwardLinks reports for a record
RecordTargets(p, rec) ==
  [k \in 1..Len(rec.wikilinks) |->
     <<ResolveLink(p, rec.wikilinks[k].targetFile), rec.wikilinks[k].label>>]

\* C26: a getFileLinks(P) that overlaps a refreshFile(P) leaves no
\* pre-refresh result in the cache: when the call stores its result after
\* the refresh and every other update of P have finished, with P unchanged
\* on disk since refreshFile(P) was called and the store holding the record
\* extracted from it, the forward links of the stored entry are those of
\* that record.
C26_NoPreRefreshEntry ==
  [][\A p \in Paths :
       ( /\ linkCache[p] = NoEntry /\ linkCache'[p] # NoEntry
         /\ QT.path = p /\ QT.refreshed = fs[p] /\ fs[p].exists
         /\ Settled(p) /\ store[p] = RecordOf(p, fs[p]) )
       => ForwardTargets(linkCache'[p].forwardLinks)
            = RecordTargets(p, store[p])]_vars


\* C27: the staleness check is sound: when ensureFileIndexed(P) returns
\* without re-extracting because the mtime it read, which is still the
\* file's mtime, is not greater than the stored lastModified, the metadata,
\* labels, headings and links of the record are those an extraction of the
\* file's current content produces.
C27_SkipIsSound ==
  [][ ( /\ QT.pc = "ensLast" /\ QT'.pc = "fwdGet"
        /\ fs[QT.path].exists /\ QT.mt = fs[QT.path].mtime )
      => LET rec == store[QT.path]
             now == RecordOf(QT.path, fs[QT.path])
         IN /\ rec.metadata = now.metadata
            /\ rec.labels = now.labels
            /\ rec.headings = now.headings
            /\ rec.wikilinks = now.wikilinks ]_vars


\* C23: for each of the four link forms the link stored by extraction has
\* the target, label and alias the form is written from, and they are the
\* parts the document-link scanner finds.
C23_SameDecomposition ==
  (call.fn = "linkForm" /\ call.done) =>
    LET parts == [target |-> call.form.target, label |-> call.form.label,
                  alias |-> call.form.alias]
    IN /\ call.stored = <<parts>>
       /\ call.scanned = call.stored


\* C22: once every create event has been handled, a .typ file that was
\* created empty inside the workspace folder, whose templates folder holds
\* default.typ.eta, and that is still on disk has the rendered template as
\* its content; and a file that is not .typ, lies outside the workspace
\* folder or was created with text has never been written by the template
\* provider.
C22_TemplateOnCreate ==
  (call.fn = "template" /\ call.run = NoRun /\ call.events = <<>>) =>
    \A f \in NewFiles :
      /\ ( /\ endsWith(f, DotTyp) /\ getWorkspaceFolder(f) # Undef
           /\ call.template # Missing
           /\ call.born[f] = <<>> /\ call.disk[f] # Missing )
         => call.disk[f] = render(call.template)
      /\ ( \/ ~endsWith(f, DotTyp)
           \/ getWorkspaceFolder(f) = Undef
           \/ call.born[f] \notin {Missing, <<>>} )
         => f \notin call.wrote

====
